---- MODULE Spec2Model ----
(***************************************************************************)
(* Model of the BFHL API: token validation and classification, the math    *)
(* service (Fibonacci, primes, LCM, HCF), the analysis service (anomaly    *)
(* detection, AI label calls, analyzeData) and the POST /bfhl handler.     *)
(*                                                                         *)
(* JavaScript numbers are modelled as records [k, v]:                      *)
(*   k = "fin": the finite number v/2 (v counts halves, so that 1.5 and    *)
(*              -2.5 are values of the model);                             *)
(*   k = "inf": Infinity (v = 1) or -Infinity (v = -1);                    *)
(*   k = "nan": NaN.                                                       *)
(* A finite result whose magnitude exceeds MaxDouble halves overflows to   *)
(* an infinity, as a double does beyond Number.MAX_VALUE.  Arithmetic on   *)
(* finite values below that is exact: the rounding of doubles beyond 2^53  *)
(* is not modelled.                                                        *)
(*                                                                         *)
(* Where a loop or a scan passes a computed value on, the value is bound   *)
(* through a singleton set (CHOOSE r \in {F(x) : x \in {e}} : TRUE is      *)
(* F(e)), so that it is computed once.                                     *)
(***************************************************************************)
EXTENDS Integers, Sequences, FiniteSets, TLC

\* The model's Number.MAX_VALUE, in halves.
MaxDouble == 2000000000

Fin(h) == [k |-> "fin", v |-> h]
Num(i) == Fin(2 * i)
Infinity == [k |-> "inf", v |-> 1]
NegInfinity == [k |-> "inf", v |-> -1]
NaN == [k |-> "nan", v |-> 0]
\* null, and the outcome of a call that never returns
Null == [k |-> "null", v |-> 0]
Hang == [k |-> "hang", v |-> 0]

AbsInt(h) == IF h < 0 THEN -h ELSE h
SignInt(h) == IF h < 0 THEN -1 ELSE 1

IsHang(x) == x.k = "hang"
IsFin(x) == x.k = "fin"
IsNaNNum(x) == x.k = "nan"
IsZero(x) == x.k = "fin" /\ x.v = 0
IsWhole(x) == x.k = "fin" /\ x.v % 2 = 0

\* a < b on doubles: false as soon as one side is NaN
JsLt(a, b) ==
  CASE a.k = "nan" \/ b.k = "nan" -> FALSE
    [] a.k = "fin" /\ b.k = "fin" -> a.v < b.v
    [] a.k = "inf" /\ b.k = "inf" -> a.v < b.v
    [] a.k = "inf" -> a.v < 0
    [] OTHER -> b.v > 0
JsGt(a, b) == JsLt(b, a)
\* a === b on numbers
JsEq(a, b) == a.k # "nan" /\ b.k # "nan" /\ a = b

JsAbs(a) ==
  CASE a.k = "fin" -> Fin(AbsInt(a.v))
    [] a.k = "inf" -> Infinity
    [] OTHER -> a
\* Math.floor: \div rounds towards minus infinity
JsFloor(a) == IF a.k = "fin" THEN Fin(2 * (a.v \div 2)) ELSE a

\* a + b
JsAdd(a, b) ==
  CASE a.k = "nan" \/ b.k = "nan" -> NaN
    [] a.k = "inf" /\ b.k = "inf" -> IF a.v = b.v THEN a ELSE NaN
    [] a.k = "inf" -> a
    [] b.k = "inf" -> b
    [] OTHER ->
         IF a.v > 0 /\ b.v > MaxDouble - a.v THEN Infinity
         ELSE IF a.v < 0 /\ b.v < (-MaxDouble) - a.v THEN NegInfinity
         ELSE Fin(a.v + b.v)

\* a * b; the product of two odd numbers of halves is rounded to a half
JsMul(a, b) ==
  CASE a.k = "nan" \/ b.k = "nan" -> NaN
    [] IsZero(a) \/ IsZero(b) ->
         IF a.k = "inf" \/ b.k = "inf" THEN NaN ELSE Fin(0)
    [] a.k = "inf" \/ b.k = "inf" ->
         IF SignInt(a.v) = SignInt(b.v) THEN Infinity ELSE NegInfinity
    [] OTHER ->
         LET x == AbsInt(a.v)
             y == AbsInt(b.v)
             s == SignInt(a.v) * SignInt(b.v)
             \* x/2 * y, or x * y/2, so that no intermediate leaves the range
             p == IF x % 2 = 0 THEN x \div 2 ELSE x
             q == IF x % 2 = 0 THEN y ELSE IF y % 2 = 0 THEN y \div 2 ELSE y
             halve == x % 2 = 1 /\ y % 2 = 1
         IN  IF p > MaxDouble \div q
             THEN IF s > 0 THEN Infinity ELSE NegInfinity
             ELSE Fin(s * (IF halve THEN (p * q) \div 2 ELSE p * q))

\* a / b; a quotient that is no whole number of halves is rounded down
JsDiv(a, b) ==
  CASE a.k = "nan" \/ b.k = "nan" -> NaN
    [] a.k = "inf" /\ b.k = "inf" -> NaN
    [] a.k = "inf" ->
         IF SignInt(a.v) = SignInt(b.v) THEN Infinity ELSE NegInfinity
    [] b.k = "inf" -> Fin(0)
    [] IsZero(b) ->
         IF IsZero(a) THEN NaN
         ELSE IF a.v > 0 THEN Infinity ELSE NegInfinity
    [] OTHER ->
         LET x == AbsInt(a.v)
             y == AbsInt(b.v)
             s == SignInt(a.v) * SignInt(b.v)
             whole == x \div y
             rest == (2 * (x % y)) \div y
         IN  IF whole > (MaxDouble - rest) \div 2
             THEN IF s > 0 THEN Infinity ELSE NegInfinity
             ELSE Fin(s * (2 * whole + rest))

\* a % b: NaN for an infinite dividend or a zero divisor, the dividend for
\* an infinite divisor, else the remainder with the dividend's sign
JsRem(a, b) ==
  CASE a.k = "nan" \/ b.k = "nan" -> NaN
    [] a.k = "inf" -> NaN
    [] IsZero(b) -> NaN
    [] b.k = "inf" -> a
    [] OTHER -> Fin(SignInt(a.v) * (AbsInt(a.v) % AbsInt(b.v)))

(***************************************************************************)
(* math.service: LCM and HCF                                               *)
(***************************************************************************)

\* The while loop of gcdTwoNumbers.  Its state is (a, b); a step that leaves
\* the state unchanged (b is NaN, and NaN !== 0) repeats for ever.
RECURSIVE GcdLoop(_, _)
GcdLoop(a, b) ==
  IF JsEq(b, Fin(0)) THEN a
  ELSE LET temp == b
           nb == JsRem(a, b)
       IN  IF temp = a /\ nb = b THEN Hang
           ELSE CHOOSE r \in {GcdLoop(b, x) : x \in {nb}} : TRUE

\* gcdTwoNumbers with `if (b !== 0)` in place of `while (b !== 0)`
gcdTwoNumbersOneStep(a, b) ==
  IF JsEq(JsAbs(b), Fin(0)) THEN JsAbs(a) ELSE JsAbs(b)

gcdTwoNumbers(a, b) ==
  CHOOSE r \in {GcdLoop(x, y) : x \in {JsAbs(a)}, y \in {JsAbs(b)}} : TRUE

lcmTwoNumbers(a, b) ==
  IF JsEq(a, Fin(0)) \/ JsEq(b, Fin(0)) THEN Fin(0)
  ELSE LET g == gcdTwoNumbers(a, b)
       IN  IF IsHang(g) THEN Hang ELSE JsDiv(JsAbs(JsMul(a, b)), g)

SelectNonZero(numbers) == SelectSeq(numbers, LAMBDA n : ~JsEq(n, Fin(0)))
\* numbers.filter(num => num !== 0).map(num => Math.abs(Math.floor(num)))
FilteredNumbers(numbers) ==
  LET nz == SelectNonZero(numbers)
  IN  [i \in 1..Len(nz) |-> JsAbs(JsFloor(nz[i]))]

\* Array.prototype.reduce without an initial value, over a call that may
\* never return
RECURSIVE ReduceLcm(_, _, _)
ReduceLcm(lcm, s, i) ==
  IF i > Len(s) THEN lcm
  ELSE CHOOSE r \in {IF IsHang(x) THEN Hang ELSE ReduceLcm(x, s, i + 1) :
                      x \in {lcmTwoNumbers(lcm, s[i])}} : TRUE

RECURSIVE ReduceHcf(_, _, _)
ReduceHcf(hcf, s, i) ==
  IF i > Len(s) THEN hcf
  ELSE CHOOSE r \in {IF IsHang(x) THEN Hang ELSE ReduceHcf(x, s, i + 1) :
                      x \in {gcdTwoNumbers(hcf, s[i])}} : TRUE

calculateLCM(numbers) ==
  IF Len(numbers) = 0 THEN Null
  ELSE IF Len(numbers) = 1 THEN JsAbs(numbers[1])
  ELSE CHOOSE r \in
         {IF Len(filteredNumbers) = 0 THEN Fin(0)
          ELSE IF Len(filteredNumbers) = 1 THEN filteredNumbers[1]
          ELSE ReduceLcm(filteredNumbers[1], filteredNumbers, 2) :
            filteredNumbers \in {FilteredNumbers(numbers)}} : TRUE

\* calculateHCF answering 0, as calculateLCM does, when only zeros remain
calculateHCFZero(numbers) ==
  IF Len(numbers) = 0 THEN Null
  ELSE IF Len(numbers) = 1 THEN JsAbs(numbers[1])
  ELSE CHOOSE r \in
         {IF Len(filteredNumbers) = 0 THEN Fin(0)
          ELSE IF Len(filteredNumbers) = 1 THEN filteredNumbers[1]
          ELSE ReduceHcf(filteredNumbers[1], filteredNumbers, 2) :
            filteredNumbers \in {FilteredNumbers(numbers)}} : TRUE

calculateHCF(numbers) ==
  IF Len(numbers) = 0 THEN Null
  ELSE IF Len(numbers) = 1 THEN JsAbs(numbers[1])
  ELSE CHOOSE r \in
         {IF Len(filteredNumbers) = 0 THEN Null
          ELSE IF Len(filteredNumbers) = 1 THEN filteredNumbers[1]
          ELSE ReduceHcf(filteredNumbers[1], filteredNumbers, 2) :
            filteredNumbers \in {FilteredNumbers(numbers)}} : TRUE

(***************************************************************************)
(* math.service: Fibonacci and primes                                      *)
(***************************************************************************)

\* The while (true) loop of getFibonacciSequence.  It leaves only through
\* next > maxValue; once the last two elements are both Infinity a step
\* changes neither of them nor the test, and the loop pushes for ever.
\* The loop leaving through next >= maxValue
RECURSIVE FibLoopStrict(_, _)
FibLoopStrict(sequence, maxValue) ==
  LET last == sequence[Len(sequence)]
      prev == sequence[Len(sequence) - 1]
  IN  CHOOSE r \in
        {IF JsGt(next, maxValue) \/ JsEq(next, maxValue)
         THEN [k |-> "seq", v |-> sequence]
         ELSE IF next = last /\ last = prev THEN Hang
         ELSE FibLoopStrict(Append(sequence, next), maxValue) :
           next \in {JsAdd(last, prev)}} : TRUE

RECURSIVE FibLoop(_, _)
FibLoop(sequence, maxValue) ==
  LET last == sequence[Len(sequence)]
      prev == sequence[Len(sequence) - 1]
  IN  CHOOSE r \in
        {IF JsGt(next, maxValue) THEN [k |-> "seq", v |-> sequence]
         ELSE IF next = last /\ last = prev THEN Hang
         ELSE FibLoop(Append(sequence, next), maxValue) :
           next \in {JsAdd(last, prev)}} : TRUE

getFibonacciSequence(maxValue) ==
  IF JsLt(maxValue, Fin(0)) THEN [k |-> "seq", v |-> << >>]
  ELSE IF JsEq(maxValue, Fin(0)) THEN [k |-> "seq", v |-> <<Num(0)>>]
  ELSE CHOOSE r \in {FibLoop(<<Num(0), Num(1)>>, m) : m \in {maxValue}} : TRUE

\* The for loop with i < sqrt in place of i <= sqrt
RECURSIVE PrimeLoopStrict(_, _)
PrimeLoopStrict(n, i) ==
  IF 2 * i * i >= n.v THEN TRUE
  ELSE IF JsEq(JsRem(n, Num(i)), Fin(0)) THEN FALSE
  ELSE PrimeLoopStrict(n, i + 2)

\* The for loop of isPrime, i <= Math.sqrt(n) read as i * i <= n
RECURSIVE PrimeLoop(_, _)
PrimeLoop(n, i) ==
  IF 2 * i * i > n.v THEN TRUE
  ELSE IF JsEq(JsRem(n, Num(i)), Fin(0)) THEN FALSE
  ELSE PrimeLoop(n, i + 2)

\* isPrime(Infinity) never returns: Math.sqrt(n) is Infinity, so i <= sqrt
\* holds for every i, and n % i is NaN, which is never === 0.
isPrimeHangs(n) == n = Infinity

isPrime(n) ==
  IF JsLt(n, Num(2)) THEN FALSE
  ELSE IF JsEq(n, Num(2)) THEN TRUE
  ELSE IF JsEq(JsRem(n, Num(2)), Fin(0)) THEN FALSE
  ELSE PrimeLoop(n, 3)

\* Array.prototype.sort((a, b) => a - b): a stable ascending sort
RECURSIVE InsertAsc(_, _)
InsertAsc(sorted, x) ==
  IF sorted = << >> THEN <<x>>
  ELSE IF JsLt(x, sorted[Len(sorted)])
       THEN Append(InsertAsc(SubSeq(sorted, 1, Len(sorted) - 1), x),
                   sorted[Len(sorted)])
       ELSE Append(sorted, x)

RECURSIVE SortAsc(_)
SortAsc(s) ==
  IF s = << >> THEN << >>
  ELSE InsertAsc(SortAsc(SubSeq(s, 1, Len(s) - 1)), s[Len(s)])

getPrimeNumbers(numbers) ==
  IF \E i \in 1..Len(numbers) : isPrimeHangs(numbers[i]) THEN Hang
  ELSE [k |-> "seq", v |-> SortAsc(SelectSeq(numbers, isPrime))]

\* Math.max(...numbers), numbers not empty
RECURSIVE MaxFrom(_, _, _)
MaxFrom(numbers, i, m) ==
  IF i > Len(numbers) THEN m
  ELSE CHOOSE r \in
         {MaxFrom(numbers, i + 1, x) :
            x \in {IF JsGt(numbers[i], m) THEN numbers[i] ELSE m}} : TRUE

MathMax(numbers) == MaxFrom(numbers, 1, NegInfinity)

(***************************************************************************)
(* math.service: calculateMode                                             *)
(***************************************************************************)

\* frequency[num] once the loop has counted numbers[i]: the keys of
\* frequency are the numbers' strings, which differ when the numbers do
PrefixCount(numbers, i) == Cardinality({j \in 1..i : numbers[j] = numbers[i]})

Includes(modes, num) == \E j \in 1..Len(modes) : modes[j] = num

\* The for loop of calculateMode
RECURSIVE ModeLoop(_, _, _, _)
ModeLoop(numbers, i, maxFreq, modes) ==
  IF i > Len(numbers) THEN modes
  ELSE IF PrefixCount(numbers, i) > maxFreq
  THEN ModeLoop(numbers, i + 1, PrefixCount(numbers, i), <<numbers[i]>>)
  ELSE IF PrefixCount(numbers, i) = maxFreq /\ ~Includes(modes, numbers[i])
  THEN ModeLoop(numbers, i + 1, maxFreq, Append(modes, numbers[i]))
  ELSE ModeLoop(numbers, i + 1, maxFreq, modes)

\* calculateMode without the rule for sets without a mode
calculateModeAlways(numbers) ==
  [k |-> "seq", v |-> ModeLoop(numbers, 1, 0, << >>)]

calculateMode(numbers) ==
  LET modes == ModeLoop(numbers, 1, 0, << >>)
  IN  IF Len(modes) = Len(numbers) THEN Null ELSE [k |-> "seq", v |-> modes]

(***************************************************************************)
(* ai.service: detectAnomalies                                             *)
(***************************************************************************)

RECURSIVE SumHalves(_, _)
SumHalves(numbers, i) ==
  IF i > Len(numbers) THEN 0 ELSE numbers[i].v + SumHalves(numbers, i + 1)

RECURSIVE SumSquares(_, _)
SumSquares(numbers, i) ==
  IF i > Len(numbers) THEN 0
  ELSE numbers[i].v * numbers[i].v + SumSquares(numbers, i + 1)

AllFinite(numbers) == \A i \in 1..Len(numbers) : IsFin(numbers[i])

\* With n numbers of sum S and sum of squares Q (in halves), the mean is
\* S / 2n and the population variance (nQ - S^2) / 4n^2, so that
\* |x - mean| > 2 * stdDev  iff  (n x - S)^2 > 4 (nQ - S^2).
\* The result carries mean, variance and the square of the threshold as
\* exact fractions.
\* The filter with a threshold of one standard deviation
IsAnomalyOneSigma(x, n, S, Q) ==
  (n * x.v - S) * (n * x.v - S) > n * Q - S * S

IsAnomaly(x, n, S, Q) == (n * x.v - S) * (n * x.v - S) > 4 * (n * Q - S * S)

\* detectAnomalies dividing by numbers.length - 1: the sample variance
detectAnomaliesSample(numbers) ==
  IF Len(numbers) < 3
  THEN [anomalies |-> << >>, method |-> "insufficient_data"]
  ELSE IF ~AllFinite(numbers)
  THEN [anomalies |-> << >>, method |-> "statistical_outlier",
        finite |-> FALSE, meanNum |-> 0, meanDen |-> 1,
        varNum |-> 0, varDen |-> 1,
        thresholdSqNum |-> 0, thresholdSqDen |-> 1]
  ELSE LET n == Len(numbers)
           S == SumHalves(numbers, 1)
           Q == SumSquares(numbers, 1)
       IN  [anomalies |->
              SelectSeq(numbers,
                        LAMBDA x : (n - 1) * (n * x.v - S) * (n * x.v - S)
                                     > 4 * n * (n * Q - S * S)),
            method |-> "statistical_outlier",
            finite |-> TRUE, meanNum |-> S, meanDen |-> 2 * n,
            varNum |-> n * Q - S * S, varDen |-> 4 * n * (n - 1),
            thresholdSqNum |-> 4 * (n * Q - S * S),
            thresholdSqDen |-> 4 * n * (n - 1)]

detectAnomalies(numbers) ==
  IF Len(numbers) < 3
  THEN [anomalies |-> << >>, method |-> "insufficient_data"]
  ELSE IF ~AllFinite(numbers)
  \* an infinite element makes stdDev NaN, and nothing compares > NaN
  THEN [anomalies |-> << >>, method |-> "statistical_outlier",
        finite |-> FALSE, meanNum |-> 0, meanDen |-> 1,
        varNum |-> 0, varDen |-> 1,
        thresholdSqNum |-> 0, thresholdSqDen |-> 1]
  ELSE LET n == Len(numbers)
           S == SumHalves(numbers, 1)
           Q == SumSquares(numbers, 1)
       IN  [anomalies |-> SelectSeq(numbers, LAMBDA x : IsAnomaly(x, n, S, Q)),
            method |-> "statistical_outlier",
            finite |-> TRUE, meanNum |-> S, meanDen |-> 2 * n,
            varNum |-> n * Q - S * S, varDen |-> 4 * n * n,
            thresholdSqNum |-> 4 * (n * Q - S * S), thresholdSqDen |-> 4 * n * n]

(***************************************************************************)
(* Rounded arithmetic.  The statistics below are computed on doubles       *)
(* m * 2^e whose significand m has Precision bits (53 in IEEE 754), each   *)
(* operation rounding its exact result to the nearest such double, ties to *)
(* the even significand.  A double is kept with m odd, or as 0 * 2^0.      *)
(***************************************************************************)

Precision == 6

Dbl(m, e) == [m |-> m, e |-> e]
DblZero == Dbl(0, 0)

RECURSIVE DblCanon(_, _)
DblCanon(m, e) ==
  IF m = 0 THEN DblZero
  ELSE IF m % 2 = 0 THEN DblCanon(m \div 2, e + 1)
  ELSE Dbl(m, e)

\* The number of low bits of a >= 2^Precision that do not fit
ExcessBits(a) ==
  CHOOSE sh \in 1..(30 - Precision) :
    a < 2^(Precision + sh) /\ a >= 2^(Precision + sh - 1)

\* m * 2^e rounded to Precision bits
DblRound(m, e) ==
  IF AbsInt(m) < 2^Precision THEN DblCanon(m, e)
  ELSE CHOOSE r \in
         {LET q == AbsInt(m) \div 2^sh
              rest == AbsInt(m) % 2^sh
              up == rest > 2^(sh - 1) \/ (rest = 2^(sh - 1) /\ q % 2 = 1)
          IN  DblCanon(SignInt(m) * (IF up THEN q + 1 ELSE q), e + sh) :
            sh \in {ExcessBits(AbsInt(m))}} : TRUE

DblFromInt(n) == DblRound(n, 0)

MinInt(a, b) == IF a < b THEN a ELSE b

\* a + b; an operand more than 2 * Precision + 2 binary places below the
\* other does not change it
DblAdd(a, b) ==
  IF a.m = 0 THEN b
  ELSE IF b.m = 0 THEN a
  ELSE IF a.e - b.e > 2 * Precision + 2 THEN a
  ELSE IF b.e - a.e > 2 * Precision + 2 THEN b
  ELSE DblRound(a.m * 2^(a.e - MinInt(a.e, b.e))
                  + b.m * 2^(b.e - MinInt(a.e, b.e)),
                MinInt(a.e, b.e))

DblSub(a, b) == DblAdd(a, Dbl(-b.m, b.e))

\* a / b for b # 0: the quotient of the significands with Precision + 2
\* bits or more and a last bit that records a remainder
DblDiv(a, b) ==
  IF a.m = 0 THEN DblZero
  ELSE CHOOSE r \in
         {LET q == (AbsInt(a.m) * 2^k) \div AbsInt(b.m)
              sticky == IF (AbsInt(a.m) * 2^k) % AbsInt(b.m) = 0 THEN 0 ELSE 1
          IN  DblRound(SignInt(a.m) * SignInt(b.m) * (2 * q + sticky),
                       a.e - b.e - k - 1) :
            k \in {CHOOSE j \in 0..(2 * Precision + 2) :
                     /\ AbsInt(a.m) * 2^j >= AbsInt(b.m) * 2^(Precision + 1)
                     /\ \A i \in 0..(j - 1) :
                          AbsInt(a.m) * 2^i < AbsInt(b.m) * 2^(Precision + 1)}} :
         TRUE

\* Math.pow(a, k) for k = 2, 3, 4
DblPow(a, k) == DblRound(a.m^k, a.e * k)

\* Math.sqrt(a) for a >= 0: the integer square root of the significand
\* scaled to an even exponent, and a last bit that records inexactness
DblSqrt(a) ==
  IF a.m = 0 THEN DblZero
  ELSE CHOOSE r \in
         {LET root == CHOOSE x \in 0..2^(Precision + 3) :
                        x * x <= a.m * 2^k /\ (x + 1) * (x + 1) > a.m * 2^k
              sticky == IF root * root = a.m * 2^k THEN 0 ELSE 1
          IN  DblRound(2 * root + sticky, ((a.e - k) \div 2) - 1) :
            k \in {CHOOSE j \in 0..(2 * Precision + 4) :
                     /\ (a.e - j) % 2 = 0
                     /\ a.m * 2^j >= 2^(2 * Precision + 2)
                     /\ \A i \in 0..(j - 1) :
                          (a.e - i) % 2 # 0 \/ a.m * 2^i < 2^(2 * Precision + 2)}} :
         TRUE

(***************************************************************************)
(* math.service: calculateStandardDeviation; ai.service: calculateSkewness *)
(* and calculateKurtosis, on a non-empty array of doubles                  *)
(***************************************************************************)

\* numbers.reduce((a, b) => a + b, 0)
RECURSIVE DblSumFrom(_, _, _)
DblSumFrom(a, numbers, i) ==
  IF i > Len(numbers) THEN a
  ELSE CHOOSE r \in
         {DblSumFrom(x, numbers, i + 1) : x \in {DblAdd(a, numbers[i])}} : TRUE

DblMean(numbers) ==
  DblDiv(DblSumFrom(DblZero, numbers, 1), DblFromInt(Len(numbers)))

\* numbers.reduce((acc, num) => acc + Math.pow(num - mean, 2), 0)
RECURSIVE SquaresFrom(_, _, _, _)
SquaresFrom(acc, numbers, i, mean) ==
  IF i > Len(numbers) THEN acc
  ELSE CHOOSE r \in
         {SquaresFrom(x, numbers, i + 1, mean) :
            x \in {DblAdd(acc, DblPow(DblSub(numbers[i], mean), 2))}} : TRUE

DblVariance(numbers) ==
  CHOOSE r \in
    {DblDiv(SquaresFrom(DblZero, numbers, 1, mean), DblFromInt(Len(numbers))) :
       mean \in {DblMean(numbers)}} : TRUE

calculateStandardDeviation(numbers) == DblSqrt(DblVariance(numbers))

\* numbers.reduce((acc, num) => acc + Math.pow((num - mean) / stdDev, k), 0)
RECURSIVE PowersFrom(_, _, _, _, _, _)
PowersFrom(acc, numbers, i, mean, stdDev, k) ==
  IF i > Len(numbers) THEN acc
  ELSE CHOOSE r \in
         {PowersFrom(x, numbers, i + 1, mean, stdDev, k) :
            x \in {DblAdd(acc, DblPow(DblDiv(DblSub(numbers[i], mean), stdDev),
                                      k))}} : TRUE

calculateSkewness(numbers) ==
  CHOOSE r \in
    {IF stdDev = DblZero THEN DblZero
     ELSE DblDiv(PowersFrom(DblZero, numbers, 1, mean, stdDev, 3),
                 DblFromInt(Len(numbers))) :
       mean \in {DblMean(numbers)},
       stdDev \in {calculateStandardDeviation(numbers)}} : TRUE

calculateKurtosis(numbers) ==
  CHOOSE r \in
    {IF stdDev = DblZero THEN DblZero
     ELSE DblSub(DblDiv(PowersFrom(DblZero, numbers, 1, mean, stdDev, 4),
                        DblFromInt(Len(numbers))),
                 DblFromInt(3)) :
       mean \in {DblMean(numbers)},
       stdDev \in {calculateStandardDeviation(numbers)}} : TRUE

(***************************************************************************)
(* Strings and their conversion to numbers.  A string is a tuple of        *)
(* one-character strings.                                                  *)
(***************************************************************************)

Digits == <<"0", "1", "2", "3", "4", "5", "6", "7", "8", "9">>
HexLetters == <<"a", "b", "c", "d", "e", "f">>

IsDigit(c) == \E d \in 1..10 : Digits[d] = c
DigitValue(c) == (CHOOSE d \in 1..10 : Digits[d] = c) - 1
IsHexDigit(c) == IsDigit(c) \/ \E d \in 1..6 : HexLetters[d] = c
HexValue(c) ==
  IF IsDigit(c) THEN DigitValue(c)
  ELSE 9 + (CHOOSE d \in 1..6 : HexLetters[d] = c)
IsWhiteSpace(c) == c = " "

RECURSIVE TrimLeft(_)
TrimLeft(s) ==
  IF s # << >> /\ IsWhiteSpace(s[1]) THEN TrimLeft(Tail(s)) ELSE s

RECURSIVE TrimRight(_)
TrimRight(s) ==
  IF s # << >> /\ IsWhiteSpace(s[Len(s)])
  THEN TrimRight(SubSeq(s, 1, Len(s) - 1))
  ELSE s

Trim(s) == TrimRight(TrimLeft(s))

\* The end of the run of digits of s that starts at position i
RECURSIVE DigitsEnd(_, _)
DigitsEnd(s, i) ==
  IF i <= Len(s) /\ IsDigit(s[i]) THEN DigitsEnd(s, i + 1) ELSE i

\* The largest whole number the model's doubles hold
MaxWhole == MaxDouble \div 2

\* The digits s[i..j-1] in base b read as a whole number, from acc on;
\* MaxWhole + 1 stands for every larger value
RECURSIVE ReadDigits(_, _, _, _, _)
ReadDigits(s, i, j, b, acc) ==
  IF i >= j THEN acc
  ELSE LET d == HexValue(s[i])
       IN  IF acc > (MaxWhole - d) \div b THEN MaxWhole + 1
           ELSE CHOOSE r \in
                  {ReadDigits(s, i + 1, j, b, x) : x \in {acc * b + d}} : TRUE

RECURSIVE TimesTenTo(_, _)
TimesTenTo(m, e) ==
  IF e = 0 \/ m = 0 THEN m
  ELSE IF m > MaxWhole \div 10 THEN MaxWhole + 1
  ELSE CHOOSE r \in {TimesTenTo(x, e - 1) : x \in {m * 10}} : TRUE

RECURSIVE TenTo(_)
TenTo(e) == IF e = 0 THEN 1 ELSE IF e >= 9 THEN MaxWhole + 1 ELSE 10 * TenTo(e - 1)

\* The double nearest to m * 10^e, m a whole number: halves are the
\* model's precision, so the value is rounded to the nearest half
DecimalValue(m, e) ==
  IF e >= 0
  THEN LET w == TimesTenTo(m, e)
       IN  IF w > MaxWhole THEN Infinity ELSE Num(w)
  ELSE LET p == TenTo(-e)
       IN  IF m > MaxWhole THEN Infinity
           ELSE LET r == m % p
                    \* r / p rounded to a half: 0, 1/2 or 1
                    up == IF r >= p - (p \div 4) THEN 2
                          ELSE IF r >= (p + 3) \div 4 THEN 1 ELSE 0
                IN  Fin(2 * (m \div p) + up)

Negate(x) == IF x.k = "nan" THEN x ELSE [x EXCEPT !.v = -x.v]

StartsWith(s, i, w) ==
  /\ i + Len(w) - 1 <= Len(s)
  /\ \A j \in 1..Len(w) : s[i + j - 1] = w[j]

InfinityWord == <<"I", "n", "f", "i", "n", "i", "t", "y">>

\* The longest prefix of s that is a StrDecimalLiteral (ECMAScript 7.1.4.1:
\* a sign, then Infinity or digits with an optional fraction and exponent):
\* its length (0: there is none) and its value.  p is where the digits
\* start, and intEnd, fracEnd, expStart and expEnd are the positions after
\* the whole digits, the fraction, the exponent's mark and sign, and the
\* exponent's digits.
ScanValue(s, p, intEnd, fracEnd, expStart, expEnd) ==
  LET neg == p = 2 /\ s[1] = "-"
      nInt == intEnd - p
      nFrac == IF fracEnd > intEnd THEN fracEnd - (intEnd + 1) ELSE 0
      hasExp == expEnd > expStart
      expAbs == IF hasExp THEN ReadDigits(s, expStart, expEnd, 10, 0) ELSE 0
      exp == IF hasExp /\ s[expStart - 1] = "-" THEN -expAbs ELSE expAbs
      whole == ReadDigits(s, p, intEnd, 10, 0)
      mantissa == ReadDigits(s, intEnd + 1, fracEnd, 10, whole)
      value == DecimalValue(mantissa, exp - nFrac)
  IN  IF nInt + nFrac = 0 THEN [len |-> 0, value |-> NaN]
      ELSE [len |-> (IF hasExp THEN expEnd ELSE fracEnd) - 1,
            value |-> IF neg THEN Negate(value) ELSE value]

ScanExponent(s, p, intEnd, fracEnd) ==
  LET hasE == fracEnd <= Len(s) /\ s[fracEnd] \in {"e", "E"}
      expSigned == hasE /\ fracEnd + 1 <= Len(s) /\ s[fracEnd + 1] \in {"+", "-"}
      expStart == IF expSigned THEN fracEnd + 2 ELSE fracEnd + 1
  IN  CHOOSE r \in
        {ScanValue(s, p, intEnd, fracEnd, x, y) :
           x \in {expStart},
           y \in {IF hasE THEN DigitsEnd(s, expStart) ELSE expStart}} : TRUE

ScanFraction(s, p, intEnd) ==
  LET hasDot == intEnd <= Len(s) /\ s[intEnd] = "."
  IN  CHOOSE r \in
        {ScanExponent(s, p, intEnd, x) :
           x \in {IF hasDot THEN DigitsEnd(s, intEnd + 1) ELSE intEnd}} : TRUE

ScanDecimal(s) ==
  LET signed == s # << >> /\ s[1] \in {"+", "-"}
      p == IF signed THEN 2 ELSE 1
  IN  IF StartsWith(s, p, InfinityWord)
      THEN [len |-> p + 7,
            value |-> IF signed /\ s[1] = "-" THEN NegInfinity ELSE Infinity]
      ELSE CHOOSE r \in
             {ScanFraction(s, x, y) : x \in {p}, y \in {DigitsEnd(s, p)}} : TRUE

\* parseFloat(string): leading white space is skipped, what follows the
\* longest numeric prefix is ignored
ParseFloatString(s) ==
  CHOOSE r \in {ScanDecimal(t).value : t \in {TrimLeft(s)}} : TRUE

IsHexLiteral(t) ==
  /\ Len(t) >= 3
  /\ t[1] = "0"
  /\ t[2] \in {"x", "X"}
  /\ \A i \in 3..Len(t) : IsHexDigit(t[i])

\* Number(string) (StringToNumber): white space is trimmed on both sides,
\* the empty string is 0, a 0x literal is read in base 16, and anything
\* that is not wholly a numeric literal is NaN
StringToNumberTrimmed(t) ==
  IF t = << >> THEN Num(0)
  ELSE IF IsHexLiteral(t)
  THEN LET w == ReadDigits(t, 3, Len(t) + 1, 16, 0)
       IN  IF w > MaxWhole THEN Infinity ELSE Num(w)
  ELSE CHOOSE v \in
         {IF r.len = Len(t) /\ r.len > 0 THEN r.value ELSE NaN :
            r \in {ScanDecimal(t)}} : TRUE

StringToNumber(s) ==
  CHOOSE r \in {StringToNumberTrimmed(t) : t \in {Trim(s)}} : TRUE

\* The decimal digits of the whole number w >= 0
RECURSIVE DigitsOf(_)
DigitsOf(w) ==
  IF w < 10 THEN <<Digits[w + 1]>>
  ELSE Append(DigitsOf(w \div 10), Digits[(w % 10) + 1])

\* String(number) (Number::toString), for the values of the model
NumberToString(x) ==
  CASE x.k = "nan" -> <<"N", "a", "N">>
    [] x.k = "inf" ->
         IF x.v > 0 THEN InfinityWord ELSE <<"-">> \o InfinityWord
    [] OTHER ->
         (IF x.v < 0 THEN <<"-">> ELSE << >>)
           \o DigitsOf(AbsInt(x.v) \div 2)
           \o (IF x.v % 2 = 1 THEN <<".", "5">> ELSE << >>)

(***************************************************************************)
(* Tokens of the request's data array.  t is the token's JSON type:        *)
(* "number" (value n), "string" (characters s) or "other" (a boolean,      *)
(* null, an object or an array).                                           *)
(***************************************************************************)

NumberToken(x) == [t |-> "number", n |-> x, s |-> << >>]
StringToken(c) == [t |-> "string", n |-> NaN, s |-> c]
OtherToken == [t |-> "other", n |-> NaN, s |-> << >>]

\* String(item)
ToStringItem(item) == IF item.t = "number" THEN NumberToString(item.n) ELSE item.s
\* Number(item), which is also the conversion isNaN applies
ToNumberItem(item) == IF item.t = "number" THEN item.n ELSE StringToNumber(item.s)
\* parseFloat(item): the item is converted to a string first
ParseFloatItem(item) == ParseFloatString(ToStringItem(item))

Alphabet ==
  <<"a", "b", "c", "d", "e", "f", "g", "h", "i", "j", "k", "l", "m",
    "n", "o", "p", "q", "r", "s", "t", "u", "v", "w", "x", "y", "z">>
UpperAlphabet ==
  <<"A", "B", "C", "D", "E", "F", "G", "H", "I", "J", "K", "L", "M",
    "N", "O", "P", "Q", "R", "S", "T", "U", "V", "W", "X", "Y", "Z">>
IsLower(c) == \E i \in 1..26 : Alphabet[i] = c
IsUpper(c) == \E i \in 1..26 : UpperAlphabet[i] = c
\* the UTF-16 code unit of a letter
CharCode(c) ==
  IF IsUpper(c) THEN 64 + (CHOOSE i \in 1..26 : UpperAlphabet[i] = c)
  ELSE 96 + (CHOOSE i \in 1..26 : Alphabet[i] = c)

\* /^[a-zA-Z]$/.test(stringItem) and /^[a-z]$/.test(stringItem)
IsSingleLetter(str) == Len(str) = 1 /\ (IsLower(str[1]) \/ IsUpper(str[1]))
IsSingleLowercase(str) == Len(str) = 1 /\ IsLower(str[1])

\* !isNaN(item) && !isNaN(parseFloat(item))
IsNumericItem(item) ==
  ~IsNaNNum(ToNumberItem(item)) /\ ~IsNaNNum(ParseFloatItem(item))

(***************************************************************************)
(* routes/bfhl.routes: validateBfhlRequest                                 *)
(***************************************************************************)

MaxArrayLength == 1000
MaxStringLength == 100
MaxNumber == 999999999

InvalidNumber(item) ==
  /\ item.t = "number"
  /\ \/ JsLt(item.n, Num(-MaxNumber))
     \/ JsGt(item.n, Num(MaxNumber))
     \/ ~IsFin(item.n)

\* The error the middleware answers 400 with, or "" when it calls next()
ValidationError(d) ==
  IF Len(d) = 0 THEN "data array cannot be empty"
  ELSE IF \E i \in 1..Len(d) : d[i].t \notin {"string", "number"}
  THEN "data array must contain only strings and numbers"
  ELSE IF Len(d) > MaxArrayLength
  THEN "data array exceeds maximum allowed length of 1000 elements"
  ELSE IF \E i \in 1..Len(d) : d[i].t = "string" /\ Len(d[i].s) > MaxStringLength
  THEN "string elements in data array cannot exceed 100 characters"
  ELSE IF \E i \in 1..Len(d) : InvalidNumber(d[i])
  THEN "number elements must be finite and between -999999999 and 999999999"
  ELSE ""

(***************************************************************************)
(* controllers/bfhl.controller: the classification loop of processBfhl     *)
(***************************************************************************)

\* The loop with numbers.unshift in place of numbers.push
ClassifiedNumbersUnshift(d) ==
  LET kept == SelectSeq(d, IsNumericItem)
  IN  [i \in 1..Len(kept) |-> ToNumberItem(kept[Len(kept) + 1 - i])]

ClassifiedNumbers(d) ==
  LET kept == SelectSeq(d, IsNumericItem)
  IN  [i \in 1..Len(kept) |-> ToNumberItem(kept[i])]

IsAlphabetItem(item) == ~IsNumericItem(item) /\ IsSingleLetter(ToStringItem(item))

ClassifiedAlphabets(d) ==
  LET kept == SelectSeq(d, IsAlphabetItem)
  IN  [i \in 1..Len(kept) |-> ToStringItem(kept[i])[1]]

LowercaseAlphabets(d) == SelectSeq(ClassifiedAlphabets(d), IsLower)

\* lowercaseAlphabets.sort().shift() in place of .pop()
HighestLowercaseAlphabetShift(d) ==
  LET lower == LowercaseAlphabets(d)
  IN  IF Len(lower) = 0 THEN << >>
      ELSE <<CHOOSE c \in {lower[i] : i \in 1..Len(lower)} :
               \A j \in 1..Len(lower) : CharCode(c) <= CharCode(lower[j])>>

\* lowercaseAlphabets.sort().pop(), wrapped in an array; [] when there is
\* no lowercase letter
HighestLowercaseAlphabet(d) ==
  LET lower == LowercaseAlphabets(d)
  IN  IF Len(lower) = 0 THEN << >>
      ELSE <<CHOOSE c \in {lower[i] : i \in 1..Len(lower)} :
               \A j \in 1..Len(lower) : CharCode(lower[j]) <= CharCode(c)>>

(***************************************************************************)
(* controllers/bfhl.controller: the mathematical operations of processBfhl *)
(***************************************************************************)

\* numbers.reduce((a, b) => a + b, 0) and numbers.reduce((a, b) => a * b, 1)
RECURSIVE SumFrom(_, _, _)
SumFrom(a, numbers, i) ==
  IF i > Len(numbers) THEN a
  ELSE CHOOSE r \in
         {SumFrom(x, numbers, i + 1) : x \in {JsAdd(a, numbers[i])}} : TRUE

RECURSIVE ProductFrom(_, _, _)
ProductFrom(a, numbers, i) ==
  IF i > Len(numbers) THEN a
  ELSE CHOOSE r \in
         {ProductFrom(x, numbers, i + 1) : x \in {JsMul(a, numbers[i])}} : TRUE

RECURSIVE MinFrom(_, _, _)
MinFrom(numbers, i, m) ==
  IF i > Len(numbers) THEN m
  ELSE CHOOSE r \in
         {MinFrom(numbers, i + 1, x) :
            x \in {IF JsLt(numbers[i], m) THEN numbers[i] ELSE m}} : TRUE

MathMin(numbers) == MinFrom(numbers, 1, Infinity)

NoMathResults ==
  [present |-> FALSE, sum |-> Null, product |-> Null, max |-> Null,
   min |-> Null, average |-> Null, fibonacci |-> Null, primes |-> Null,
   lcm |-> Null, hcf |-> Null]

\* mathResults without the test numbers.length > 0
MathResultsUnguarded(nums) ==
  [present |-> TRUE,
   sum |-> SumFrom(Num(0), nums, 1),
   product |-> ProductFrom(Num(1), nums, 1),
   max |-> MathMax(nums),
   min |-> MathMin(nums),
   average |-> JsDiv(SumFrom(Num(0), nums, 1), Num(Len(nums))),
   fibonacci |-> getFibonacciSequence(MathMax(nums)),
   primes |-> getPrimeNumbers(nums),
   lcm |-> IF Len(nums) > 1 THEN calculateLCM(nums) ELSE Null,
   hcf |-> IF Len(nums) > 1 THEN calculateHCF(nums) ELSE Null]

\* mathResults; a field is Hang when its computation never returns
MathResults(nums) ==
  IF Len(nums) = 0 THEN NoMathResults
  ELSE [present |-> TRUE,
        sum |-> SumFrom(Num(0), nums, 1),
        product |-> ProductFrom(Num(1), nums, 1),
        max |-> MathMax(nums),
        min |-> MathMin(nums),
        average |-> JsDiv(SumFrom(Num(0), nums, 1), Num(Len(nums))),
        fibonacci |-> getFibonacciSequence(MathMax(nums)),
        primes |-> getPrimeNumbers(nums),
        lcm |-> IF Len(nums) > 1 THEN calculateLCM(nums) ELSE Null,
        hcf |-> IF Len(nums) > 1 THEN calculateHCF(nums) ELSE Null]

MathHangs(m) ==
  IsHang(m.fibonacci) \/ IsHang(m.primes) \/ IsHang(m.lcm) \/ IsHang(m.hcf)

(***************************************************************************)
(* ai.service: the three label calls, calculateAIConfidence, analyzeData   *)
(*                                                                         *)
(* key: whether GEMINI_API_KEY is set; without it generateContent is not   *)
(* called.  The outcome of model.generateContent is "word" (a reply whose  *)
(* first word has letters), "empty" (a reply that leaves no letters),      *)
(* "throws" (the call rejects) or "never" (the call never settles).        *)
(* Rejected marks a label call that rejects.                               *)
(***************************************************************************)

Calls == {"analysis", "sentiment", "recommendation"}
Outcomes == {"word", "empty", "throws", "never"}
Rejected == "<rejected>"

getSingleWordAnalysis(key, outcome) ==
  IF ~key THEN "unavailable"
  ELSE IF outcome = "throws" THEN "error"
  ELSE IF outcome = "word" THEN "sequential" ELSE "complex"

\* getDataSentiment without its try/catch: a failing call rejects
getDataSentimentNoCatch(key, outcome) ==
  IF ~key THEN "neutral"
  ELSE IF outcome = "throws" THEN Rejected
  ELSE IF outcome = "word" THEN "stable" ELSE "neutral"

getDataSentiment(key, outcome) ==
  IF ~key THEN "neutral"
  ELSE IF outcome = "throws" THEN "unknown"
  ELSE IF outcome = "word" THEN "stable" ELSE "neutral"

getAIRecommendation(key, outcome) ==
  IF ~key THEN "optimize"
  ELSE IF outcome = "throws" THEN "review"
  ELSE IF outcome = "word" THEN "simplify" ELSE "optimize"

\* In hundredths
calculateAIConfidence(analysis, sentiment, recommendation) ==
  LET confidence ==
        50 + (IF analysis # "" /\ analysis # "error" /\ analysis # "unavailable"
              THEN 20 ELSE 0)
           + (IF sentiment # "" /\ sentiment # "unknown" /\ sentiment # "error"
              THEN 15 ELSE 0)
           + (IF recommendation # "" /\ recommendation # "retry"
                 /\ recommendation # "error"
              THEN 15 ELSE 0)
  IN  IF confidence > 100 THEN 100 ELSE confidence

\* The report of analyzeData once its three label calls have settled:
\* the try block's insights, or the catch block's report when a call
\* rejected
analyzeData(nums, key, outcome) ==
  LET geminiAnalysis == getSingleWordAnalysis(key, outcome["analysis"])
      geminiSentiment == getDataSentiment(key, outcome["sentiment"])
      geminiRecommendation == getAIRecommendation(key, outcome["recommendation"])
  IN  IF Rejected \in {geminiAnalysis, geminiSentiment, geminiRecommendation}
      THEN [error |-> "AI analysis failed",
            ai_powered_insights |->
              [gemini_analysis |-> "error", data_sentiment |-> "unknown",
               ai_recommendation |-> "retry", ai_confidence |-> 0],
            traditional |-> FALSE,
            anomaly_detection |-> Null]
      ELSE [error |-> "",
            ai_powered_insights |->
              [gemini_analysis |-> geminiAnalysis,
               data_sentiment |-> geminiSentiment,
               ai_recommendation |-> geminiRecommendation,
               ai_confidence |-> calculateAIConfidence(
                  geminiAnalysis, geminiSentiment, geminiRecommendation)],
            traditional |-> TRUE,
            anomaly_detection |-> detectAnomalies(nums)]

\* assessDataComplexity: its score and level.  diversityRatio is
\* (uniqueNumbers + uniqueAlphabets) / totalElements, NaN for 0 / 0, and
\* NaN > 0.8 and NaN > 0.5 are false; range is read for some number only
assessDataComplexity(nums, alphas) ==
  LET totalElements == Len(nums) + Len(alphas)
      unique == Cardinality({nums[i] : i \in 1..Len(nums)})
                  + Cardinality({alphas[i] : i \in 1..Len(alphas)})
      range == JsAdd(MathMax(nums), JsMul(Num(-1), MathMin(nums)))
      score ==
        (IF totalElements > 50 THEN 3
         ELSE IF totalElements > 20 THEN 2
         ELSE IF totalElements > 10 THEN 1 ELSE 0)
        + (IF Len(nums) = 0 THEN 0
           ELSE IF JsGt(range, Num(1000)) THEN 2
           ELSE IF JsGt(range, Num(100)) THEN 1 ELSE 0)
        + (IF totalElements = 0 THEN 0
           ELSE IF 10 * unique > 8 * totalElements THEN 2
           ELSE IF 10 * unique > 5 * totalElements THEN 1 ELSE 0)
  IN  [score |-> score,
       level |-> IF score >= 6 THEN "high"
                 ELSE IF score >= 3 THEN "medium" ELSE "low"]

\* The number of different values in a sequence
SetSize(s) == Cardinality({s[i] : i \in 1..Len(s)})

\* calculateConfidenceScore with || for && in the test of the buckets
calculateConfidenceScoreEither(nums, alphas, fileInfo) ==
  LET score ==
        5 + (IF Len(nums) + Len(alphas) > 10 THEN 2 ELSE 0)
          + (IF Len(nums) > 0 \/ Len(alphas) > 0 THEN 1 ELSE 0)
          + (IF SetSize(nums) + SetSize(alphas) = Len(nums) + Len(alphas)
             THEN 1 ELSE 0)
          + (IF fileInfo = "valid" THEN 1 ELSE 0)
  IN  IF score > 10 THEN 10 ELSE score

\* In tenths.  fileInfo is "absent", "invalid" or "valid".  A Set holds a
\* number and a string as different elements, so the size of the Set of
\* [...numbers, ...alphabets] is the sum of the sizes of the two parts.
calculateConfidenceScore(nums, alphas, fileInfo) ==
  LET score ==
        5 + (IF Len(nums) + Len(alphas) > 10 THEN 2 ELSE 0)
          + (IF Len(nums) > 0 /\ Len(alphas) > 0 THEN 1 ELSE 0)
          + (IF SetSize(nums) + SetSize(alphas) = Len(nums) + Len(alphas)
             THEN 1 ELSE 0)
          + (IF fileInfo = "valid" THEN 1 ELSE 0)
  IN  IF score > 10 THEN 10 ELSE score

(***************************************************************************)
(* ai.service: detectPatterns and detectClusters, for finite numbers.      *)
(* A confidence is the fraction num / den.                                 *)
(***************************************************************************)

Pattern(type, num, den) == [type |-> type, num |-> num, den |-> den]

\* The number of i in 2..Len(numbers) with numbers[i] > numbers[i-1]
AscendingPairs(numbers) ==
  Cardinality({i \in 2..Len(numbers) : JsGt(numbers[i], numbers[i - 1])})

DescendingPairs(numbers) ==
  Cardinality({i \in 2..Len(numbers) : JsLt(numbers[i], numbers[i - 1])})

\* ascending > descending * 1.5 is 2 * ascending > 3 * descending
TrendPatterns(numbers) ==
  LET ascending == AscendingPairs(numbers)
      descending == DescendingPairs(numbers)
  IN  IF 2 * ascending > 3 * descending
      THEN <<Pattern("ascending_trend", ascending, Len(numbers) - 1)>>
      ELSE IF 2 * descending > 3 * ascending
      THEN <<Pattern("descending_trend", descending, Len(numbers) - 1)>>
      ELSE << >>

DominancePatterns(numbers) ==
  LET evenCount ==
        Cardinality({i \in 1..Len(numbers) :
                       JsEq(JsRem(numbers[i], Num(2)), Fin(0))})
      oddCount == Len(numbers) - evenCount
  IN  IF evenCount > oddCount * 2 THEN <<Pattern("even_dominance", 4, 5)>>
      ELSE IF oddCount > evenCount * 2 THEN <<Pattern("odd_dominance", 4, 5)>>
      ELSE << >>

detectNumericalPatterns(numbers) ==
  DominancePatterns(numbers) \o TrendPatterns(numbers)

isAlphabeticalSequence(alphas) ==
  IF Len(alphas) < 2 THEN FALSE
  ELSE LET codes == SortAsc([i \in 1..Len(alphas) |-> Num(CharCode(alphas[i]))])
       IN  \A i \in 2..Len(codes) : codes[i].v - codes[i - 1].v = 2

\* data.join(''): the strings of the numbers, then the letters
RECURSIVE JoinStrings(_, _)
JoinStrings(nums, i) ==
  IF i > Len(nums) THEN << >>
  ELSE NumberToString(nums[i]) \o JoinStrings(nums, i + 1)

JoinData(nums, alphas) == JoinStrings(nums, 1) \o alphas

\* pattern.repeat(count)
RECURSIVE StringRepeat(_, _)
StringRepeat(pattern, count) ==
  IF count = 0 THEN << >> ELSE pattern \o StringRepeat(pattern, count - 1)

NoRepetition == [found |-> FALSE, pattern |-> << >>, length |-> 0]

\* The loop of hasRepeatingPattern: len <= str.length / 2 is 2 * len <= Len
RECURSIVE RepeatLoop(_, _)
RepeatLoop(str, len) ==
  IF 2 * len > Len(str) THEN NoRepetition
  ELSE IF str = StringRepeat(SubSeq(str, 1, len), Len(str) \div len)
  THEN [found |-> TRUE, pattern |-> SubSeq(str, 1, len), length |-> len]
  ELSE RepeatLoop(str, len + 1)

\* The loop starting at len = 2
hasRepeatingPatternFromTwo(str) == RepeatLoop(str, 2)

hasRepeatingPattern(str) == RepeatLoop(str, 1)

\* numerical_patterns, and of sequence_analysis is_alphabetical and
\* has_repetition
detectPatterns(nums, alphas) ==
  [numerical_patterns |->
     IF Len(nums) >= 3 THEN detectNumericalPatterns(nums) ELSE << >>,
   is_alphabetical |-> isAlphabeticalSequence(alphas),
   has_repetition |-> hasRepeatingPattern(JoinData(nums, alphas))]

\* The sum of sorted[i] - sorted[i-1] for i from 2, in halves
RECURSIVE SumGaps(_, _)
SumGaps(sorted, i) ==
  IF i > Len(sorted) THEN 0
  ELSE (sorted[i].v - sorted[i - 1].v) + SumGaps(sorted, i + 1)

\* detectClusters counting the gaps >= avgGap * 2
detectClustersWithTies(numbers) ==
  IF Len(numbers) < 3
  THEN [empty |-> TRUE, potential_clusters |-> 0, large_gaps |-> 0,
        gapSum |-> 0, gapCount |-> 1]
  ELSE LET sorted == SortAsc(numbers)
           count == Len(sorted) - 1
           total == SumGaps(sorted, 2)
           largeGaps ==
             {i \in 2..Len(sorted) :
                (sorted[i].v - sorted[i - 1].v) * count >= total * 2}
       IN  [empty |-> FALSE,
            potential_clusters |-> Cardinality(largeGaps) + 1,
            large_gaps |-> Cardinality(largeGaps),
            gapSum |-> total, gapCount |-> count]

\* avgGap is gapSum / gapCount (in halves): gap > avgGap * 2 is
\* gap * gapCount > gapSum * 2
detectClusters(numbers) ==
  IF Len(numbers) < 3
  THEN [empty |-> TRUE, potential_clusters |-> 0, large_gaps |-> 0,
        gapSum |-> 0, gapCount |-> 1]
  ELSE LET sorted == SortAsc(numbers)
           count == Len(sorted) - 1
           total == SumGaps(sorted, 2)
           largeGaps ==
             {i \in 2..Len(sorted) :
                (sorted[i].v - sorted[i - 1].v) * count > total * 2}
       IN  [empty |-> FALSE,
            potential_clusters |-> Cardinality(largeGaps) + 1,
            large_gaps |-> Cardinality(largeGaps),
            gapSum |-> total, gapCount |-> count]

NoAnalysis ==
  [error |-> "", ai_powered_insights |-> Null, traditional |-> FALSE,
   anomaly_detection |-> Null]

(***************************************************************************)
(* State                                                                   *)
(***************************************************************************)

VARIABLES
  data,          \* req.body.data
  pc,            \* where the request is
  numbers,       \* the classified numbers (the NumberSet)
  alphabets,     \* the classified letters
  highest,       \* highestLowercaseAlphabet
  mathResults,   \* mathResults of processBfhl
  geminiKey,     \* whether GEMINI_API_KEY is set
  labelOutcome,  \* the outcome of each label call's generateContent
  aiAnalysis,    \* what analyzeData returned
  response,      \* the response written
  called,        \* the service function applied to numbers
  result,        \* and what it returned
  now,           \* Date.now(), in milliseconds since the server started
  sends,         \* the res.json calls on the request's response, in order
  server         \* the server process: its listener, timers and exit

vars ==
  <<data, pc, numbers, alphabets, highest, mathResults, geminiKey,
    labelOutcome, aiAnalysis, response, called, result, now, sends,
    server>>

NoResponse == [status |-> 0]
NoOutcome == [c \in Calls |-> "none"]

\* Bounds of the model
MaxData == 2
MaxLen == 3
MaxValue == 3

SeqsUpTo(S, n) == UNION {[1..k -> S] : k \in 0..n}

\* Tokens of the requests whose whole processing is followed
PipelineTokens ==
  {NumberToken(Num(4)), StringToken(<<"6">>), StringToken(<<"a">>),
   StringToken(<<"B">>), StringToken(<<"$">>)}

\* Tokens of the requests followed through validation, classification and
\* the mathematical operations
ClassifyTokens ==
  {NumberToken(Num(1)), NumberToken(Fin(5)), NumberToken(Num(-4)),
   NumberToken(Num(0)), NumberToken(Num(MaxNumber)),
   NumberToken(Num(MaxNumber + 1)), NumberToken(Infinity), OtherToken,
   StringToken(<<"2">>), StringToken(<<"1", ".", "5">>),
   StringToken(<<" ", "7", " ">>), StringToken(<<"-", "3">>),
   StringToken(<<"1", "2", "a">>), StringToken(<<"a">>),
   StringToken(<<"z">>), StringToken(<<"B">>), StringToken(<<"a", "b">>),
   StringToken(<<"$">>), StringToken(<< >>), StringToken(<<" ">>),
   StringToken(<<"0", "x", "1", "0">>), StringToken(<<"1", "e", "3">>),
   StringToken(InfinityWord),
   StringToken(<<"1", "0", "0", "0", "0", "0", "0", "0", "0", "0">>)}

\* The request of the documentation: "data": ["1", "2", "a", "b", "3"]
ExampleTokens ==
  <<StringToken(<<"1">>), StringToken(<<"2">>), StringToken(<<"a">>),
    StringToken(<<"b">>), StringToken(<<"3">>)>>

ClassifyExamples == {ExampleTokens}

\* The NumberSets the service functions are applied to: every sequence of
\* up to MaxLen values among the halves from -3/2 to MaxValue and Infinity,
\* and the examples of the documentation
MathValues == {Fin(h) : h \in -3..(2 * MaxValue)} \cup {Infinity}
MathExamples ==
  {<<Num(1), Num(2), Num(3), Num(4), Num(100)>>, <<Num(10)>>,
   <<Num(1), Num(1), Num(1), Num(1), Num(1), Num(10)>>}
MathInputs == SeqsUpTo(MathValues, MaxLen) \cup MathExamples

\* The integers isPrime is applied to
MaxPrime == 10000
PrimeInputs == {<<Num(n)>> : n \in 0..MaxPrime}

\* A res.json call: who made it, with which status, and whether it wrote
\* the response or threw because the headers were already sent
Send(by, status, written) == [by |-> by, status |-> status, written |-> written]

\* The process once server.listen has succeeded.  production: NODE_ENV is
\* "production"; connections: the open connections; callbacks: the
\* callbacks given to server.close, "ok" when the server was open at the
\* call and "err" when it was not; timers: the times at which a force
\* timeout is due; closeCalls: the calls of server.close; shutdownAt: the
\* time of the first of them; exitCode: -1 while the process runs;
\* exitedBy: the code that called process.exit; signals: the SIGTERM and
\* SIGINT received.  Times are in seconds.
StartedServer(production, connections) ==
  [state |-> "listening", production |-> production,
   connections |-> connections, callbacks |-> << >>, timers |-> {},
   closeCalls |-> 0, shutdownAt |-> -1, exitCode |-> -1, exitedBy |-> "",
   signals |-> 0]

ListeningServer == StartedServer(FALSE, 0)

InitRequest(requests) ==
  /\ data \in requests
  /\ pc = "received"
  /\ numbers = << >>
  /\ alphabets = << >>
  /\ highest = << >>
  /\ mathResults = NoMathResults
  /\ geminiKey \in BOOLEAN
  /\ labelOutcome = NoOutcome
  /\ aiAnalysis = NoAnalysis
  /\ response = NoResponse
  /\ called = "none"
  /\ result = Null
  /\ now = 0
  /\ sends = << >>
  /\ server = ListeningServer

Init == InitRequest(SeqsUpTo(PipelineTokens, MaxData))

InitClassify ==
  /\ InitRequest(SeqsUpTo(ClassifyTokens, MaxData) \cup ClassifyExamples)
  /\ geminiKey = FALSE

InitService(inputs) ==
  /\ data = << >>
  /\ pc = "math"
  /\ numbers \in inputs
  /\ alphabets = << >>
  /\ highest = << >>
  /\ mathResults = NoMathResults
  /\ geminiKey = FALSE
  /\ labelOutcome = NoOutcome
  /\ aiAnalysis = NoAnalysis
  /\ response = NoResponse
  /\ called = "none"
  /\ result = Null
  /\ now = 0
  /\ sends = << >>
  /\ server = ListeningServer

InitMath == InitService(MathInputs)

(***************************************************************************)
(* POST /bfhl: validateBfhlRequest, then processBfhl                       *)
(***************************************************************************)

\* validateBfhlRequest answers 400 or calls next()
Validate ==
  /\ pc = "received"
  /\ LET error == ValidationError(data)
     IN  IF error = ""
         THEN pc' = "validated" /\ response' = response /\ sends' = sends
         ELSE /\ pc' = "rejected"
              /\ response' = [status |-> 400, is_success |-> FALSE, error |-> error]
              /\ sends' = Append(sends, Send("validateBfhlRequest", 400, TRUE))
  /\ UNCHANGED <<data, numbers, alphabets, highest, mathResults, geminiKey,
                 labelOutcome, aiAnalysis, called, result, now, server>>

\* processBfhl up to its first await: the classification loop
Classify ==
  /\ pc = "validated"
  /\ numbers' = ClassifiedNumbers(data)
  /\ alphabets' = ClassifiedAlphabets(data)
  /\ highest' = HighestLowercaseAlphabet(data)
  /\ pc' = "classified"
  /\ UNCHANGED <<data, mathResults, geminiKey, labelOutcome, aiAnalysis,
                 response, called, result, now,
                 sends, server>>

\* processBfhl computes mathResults; a math.service call that never returns
\* leaves the handler (and the event loop) inside it
MathOperations ==
  /\ pc = "classified"
  /\ mathResults' = MathResults(numbers)
  /\ pc' = IF MathHangs(MathResults(numbers)) THEN "hung" ELSE "mathDone"
  /\ UNCHANGED <<data, numbers, alphabets, highest, geminiKey, labelOutcome,
                 aiAnalysis, response, called, result, now,
                 sends, server>>

\* processBfhl awaits analyzeData, which dispatches the three label calls
\* and awaits Promise.all of them
StartAnalyzeData ==
  /\ pc = "mathDone"
  /\ IF geminiKey
     THEN \E o \in [Calls -> Outcomes] : labelOutcome' = o
     ELSE labelOutcome' = NoOutcome
  /\ pc' = "aiPending"
  /\ UNCHANGED <<data, numbers, alphabets, highest, mathResults, geminiKey,
                 aiAnalysis, response, called, result, now,
                 sends, server>>

\* A label call without a key returns at once; with a key it settles when
\* generateContent does
LabelSettled(c) == ~geminiKey \/ labelOutcome[c] # "never"

\* Promise.all settles, analyzeData builds its report and returns
FinishAnalyzeData ==
  /\ pc = "aiPending"
  /\ \A c \in Calls : LabelSettled(c)
  /\ aiAnalysis' = analyzeData(numbers, geminiKey, labelOutcome)
  /\ pc' = "aiDone"
  /\ UNCHANGED <<data, numbers, alphabets, highest, mathResults, geminiKey,
                 labelOutcome, response, called, result, now,
                 sends, server>>

\* processBfhl builds the response and calls res.status(200).json.  When
\* the headers are already sent the call throws; the catch block's
\* res.status(500).json throws as well, and the promise of processBfhl
\* rejects with nothing to handle it
Respond ==
  /\ pc = "aiDone"
  /\ IF response = NoResponse
     THEN /\ response' =
               [status |-> 200, is_success |-> TRUE,
                numbers |->
                  [i \in 1..Len(numbers) |-> NumberToString(numbers[i])],
                alphabets |-> alphabets,
                highest_lowercase_alphabet |-> highest,
                mathematical_operations |-> mathResults,
                ai_insights |-> aiAnalysis]
          /\ sends' = Append(sends, Send("processBfhl", 200, TRUE))
          /\ pc' = "responded"
     ELSE /\ response' = response
          /\ sends' = sends \o <<Send("processBfhl", 200, FALSE),
                                 Send("processBfhl", 500, FALSE)>>
          /\ pc' = "unhandledRejection"
  /\ UNCHANGED <<data, numbers, alphabets, highest, mathResults, geminiKey,
                 labelOutcome, aiAnalysis, called, result, now, server>>

Next ==
  \/ Validate
  \/ Classify
  \/ MathOperations
  \/ StartAnalyzeData
  \/ FinishAnalyzeData
  \/ Respond

Spec == Init /\ [][Next]_vars

\* Node runs a callback that is ready: every enabled step is taken
FairSpec == Spec /\ WF_vars(Next)

(***************************************************************************)
(* POST /bfhl behind the request timeout middleware (SpecTimeout)          *)
(***************************************************************************)

\* The callback of res.setTimeout: the socket has been idle for
\* REQUEST_TIMEOUT while the response is unfinished.  That takes a handler
\* waiting for the network, which is processBfhl awaiting the label calls
\* made with a key; the callback does not look at res.headersSent
RequestTimeout ==
  /\ pc = "aiPending"
  /\ geminiKey
  /\ response = NoResponse
  /\ response' = [status |-> 408, error |-> "Request timeout"]
  /\ sends' = Append(sends, Send("timeout", 408, TRUE))
  /\ UNCHANGED <<data, pc, numbers, alphabets, highest, mathResults,
                 geminiKey, labelOutcome, aiAnalysis, called, result, now,
                 server>>

NextTimeout ==
  \/ Validate
  \/ Classify
  \/ MathOperations
  \/ StartAnalyzeData
  \/ RequestTimeout
  \/ FinishAnalyzeData
  \/ Respond

SpecTimeout == Init /\ [][NextTimeout]_vars

NextClassify == Validate \/ Classify \/ MathOperations

SpecClassify == InitClassify /\ [][NextClassify]_vars

(***************************************************************************)
(* The service functions applied to a NumberSet                            *)
(***************************************************************************)

Apply(name, value) ==
  /\ pc = "math"
  /\ called = "none"
  /\ called' = name
  /\ result' = value
  /\ UNCHANGED <<data, pc, numbers, alphabets, highest, mathResults,
                 geminiKey, labelOutcome, aiAnalysis, response, now,
                 sends, server>>

CallLCM == Apply("calculateLCM", calculateLCM(numbers))
CallHCF == Apply("calculateHCF", calculateHCF(numbers))
CallAnomalies == Apply("detectAnomalies", detectAnomalies(numbers))
CallFibonacci ==
  /\ Len(numbers) > 0
  /\ Apply("getFibonacciSequence", getFibonacciSequence(MathMax(numbers)))
CallPrimes == Apply("getPrimeNumbers", getPrimeNumbers(numbers))

CallMode == Apply("calculateMode", calculateMode(numbers))

NextMath ==
  \/ CallLCM
  \/ CallHCF
  \/ CallAnomalies
  \/ CallFibonacci
  \/ CallPrimes
  \/ CallMode

SpecMath == InitMath /\ [][NextMath]_vars

(***************************************************************************)
(* isPrime applied to an integer                                           *)
(***************************************************************************)

InitPrime == InitService(PrimeInputs)

\* The boolean isPrime returns, as 1 or 0
CallIsPrime ==
  Apply("isPrime",
        IF isPrimeHangs(numbers[1]) THEN Hang
        ELSE [k |-> "bool", v |-> IF isPrime(numbers[1]) THEN 1 ELSE 0])

NextPrime == CallIsPrime

SpecPrime == InitPrime /\ [][NextPrime]_vars

(***************************************************************************)
(* The statistics applied to arrays of doubles (SpecStats): every array of *)
(* 1 to MaxLen copies of one double whose significand has up to Precision  *)
(* bits, scaled by 1 or by 2^-(Precision + 3), and every array of up to    *)
(* MaxLen integers from 0 to MaxValue                                      *)
(***************************************************************************)

StatValues ==
  {DblCanon(m, e) : m \in (1 - 2^Precision)..(2^Precision - 1),
                    e \in {-(Precision + 3), 0}}

Repeat(x, n) == [i \in 1..n |-> x]

StatInputs ==
  {Repeat(x, n) : x \in StatValues, n \in 1..MaxLen}
    \cup (SeqsUpTo({DblFromInt(n) : n \in 0..MaxValue}, MaxLen) \ {<< >>})

InitStats == InitService(StatInputs)

CallStandardDeviation ==
  Apply("calculateStandardDeviation", calculateStandardDeviation(numbers))

CallSkewness == Apply("calculateSkewness", calculateSkewness(numbers))

CallKurtosis == Apply("calculateKurtosis", calculateKurtosis(numbers))

NextStats ==
  \/ CallStandardDeviation
  \/ CallSkewness
  \/ CallKurtosis

SpecStats == InitStats /\ [][NextStats]_vars

(***************************************************************************)
(* analyzeData called again on the same input (SpecRepeat): the            *)
(* environment and the answers of the label calls are those of the first   *)
(* call, the clock goes on                                                 *)
(***************************************************************************)

MaxClock == 3
MaxRuns == 2

\* The report of a call that reads the clock at startTime and at endTime:
\* the try block's insights carry processing_metadata, the catch block's
\* report does not
analyzeDataAt(nums, key, outcome, startTime, endTime) ==
  LET insights == analyzeData(nums, key, outcome)
  IN  [insights |-> insights,
       processing_metadata |->
         IF insights.error = ""
         THEN [analysis_timestamp |-> endTime,
               analysis_duration_ms |-> endTime - startTime,
               api_status |-> IF key THEN "enabled" ELSE "disabled"]
         ELSE [analysis_timestamp |-> -1,
               analysis_duration_ms |-> -1,
               api_status |-> "absent"]]

RepeatInputs == SeqsUpTo({Num(1), Num(2)}, MaxData)

InitRepeat ==
  /\ data = << >>
  /\ pc = "math"
  /\ numbers \in RepeatInputs
  /\ alphabets = << >>
  /\ highest = << >>
  /\ mathResults = NoMathResults
  /\ geminiKey \in BOOLEAN
  /\ labelOutcome \in [Calls -> {"word", "empty", "throws"}]
  /\ aiAnalysis = NoAnalysis
  /\ response = NoResponse
  /\ called = "none"
  /\ result = << >>
  /\ now = 0
  /\ sends = << >>
  /\ server = ListeningServer

\* A millisecond passes between two calls
Tick ==
  /\ pc = "math"
  /\ now < MaxClock
  /\ now' = now + 1
  /\ UNCHANGED <<data, pc, numbers, alphabets, highest, mathResults,
                 geminiKey, labelOutcome, aiAnalysis, response, called,
                 result,
                 sends, server>>

\* One call of analyzeData, which takes d milliseconds
CallAnalyzeData ==
  /\ pc = "math"
  /\ Len(result) < MaxRuns
  /\ \E d \in 0..(MaxClock - now) :
       /\ result' = Append(result,
                           analyzeDataAt(numbers, geminiKey, labelOutcome,
                                         now, now + d))
       /\ now' = now + d
  /\ called' = "analyzeData"
  /\ UNCHANGED <<data, pc, numbers, alphabets, highest, mathResults,
                 geminiKey, labelOutcome, aiAnalysis, response,
                 sends, server>>

NextRepeat == Tick \/ CallAnalyzeData

SpecRepeat == InitRepeat /\ [][NextRepeat]_vars

(***************************************************************************)
(* getMathematicalInsights beside processBfhl (SpecConcurrent): the four   *)
(* computations handed to Promise.all settle in any order and are joined;  *)
(* processBfhl computes its mathResults one after another                  *)
(***************************************************************************)

Pending == [k |-> "pending", v |-> 0]

Tasks == {"fibonacci", "primes", "lcm", "hcf"}

\* What each element of the array given to Promise.all evaluates to
TaskValue(task, nums) ==
  CASE task = "fibonacci" -> getFibonacciSequence(MathMax(nums))
    [] task = "primes" -> getPrimeNumbers(nums)
    [] task = "lcm" -> calculateLCM(nums)
    [] task = "hcf" -> calculateHCF(nums)

InitConcurrent ==
  /\ data = << >>
  /\ pc = "math"
  /\ numbers \in MathInputs
  /\ alphabets = << >>
  /\ highest = << >>
  /\ mathResults = NoMathResults
  /\ geminiKey = FALSE
  /\ labelOutcome = NoOutcome
  /\ aiAnalysis = NoAnalysis
  /\ response = NoResponse
  /\ called = "none"
  /\ result = [t \in Tasks |-> Pending]
  /\ now = 0
  /\ sends = << >>
  /\ server = ListeningServer

\* A task settles; one that never returns leaves nothing to join
RunTask(task) ==
  /\ pc = "math"
  /\ Len(numbers) > 0
  /\ result[task] = Pending
  /\ \A t \in Tasks : ~IsHang(result[t])
  /\ result' = [result EXCEPT ![task] = TaskValue(task, numbers)]
  /\ UNCHANGED <<data, pc, numbers, alphabets, highest, mathResults,
                 geminiKey, labelOutcome, aiAnalysis, response, called, now,
                 sends, server>>

TaskFibonacci == RunTask("fibonacci")
TaskPrimes == RunTask("primes")
TaskLCM == RunTask("lcm")
TaskHCF == RunTask("hcf")

\* await Promise.all([...])
Join ==
  /\ pc = "math"
  /\ called = "none"
  /\ \A t \in Tasks : result[t] # Pending /\ ~IsHang(result[t])
  /\ called' = "getMathematicalInsights"
  /\ UNCHANGED <<data, pc, numbers, alphabets, highest, mathResults,
                 geminiKey, labelOutcome, aiAnalysis, response, result, now,
                 sends, server>>

\* mathResults of processBfhl for the same numbers
Sequential ==
  /\ pc = "math"
  /\ Len(numbers) > 0
  /\ ~mathResults.present
  /\ mathResults' = MathResults(numbers)
  /\ UNCHANGED <<data, pc, numbers, alphabets, highest, geminiKey,
                 labelOutcome, aiAnalysis, response, called, result, now,
                 sends, server>>

NextConcurrent ==
  \/ TaskFibonacci
  \/ TaskPrimes
  \/ TaskLCM
  \/ TaskHCF
  \/ Join
  \/ Sequential

SpecConcurrent == InitConcurrent /\ [][NextConcurrent]_vars

(***************************************************************************)
(* calculateConfidenceScore applied to classified data (SpecConfidence):   *)
(* up to MaxData numbers and letters, and three larger examples; the label *)
(* calls answer in every way                                               *)
(***************************************************************************)

FileInfos == {"absent", "invalid", "valid"}

ConfidenceNumbers ==
  SeqsUpTo({Num(1), Num(2)}, MaxData)
    \cup {[i \in 1..6 |-> Num(i)], [i \in 1..11 |-> Num(i)],
          [i \in 1..10 |-> Num(1)]}

ConfidenceAlphabets ==
  SeqsUpTo({"A", "B"}, MaxData) \cup {<<"A", "B", "C", "D", "E">>}

InitConfidence ==
  /\ data = << >>
  /\ pc = "math"
  /\ numbers \in ConfidenceNumbers
  /\ alphabets \in ConfidenceAlphabets
  /\ highest = << >>
  /\ mathResults = NoMathResults
  /\ geminiKey \in BOOLEAN
  /\ labelOutcome \in [Calls -> {"word", "throws"}]
  /\ aiAnalysis = NoAnalysis
  /\ response = NoResponse
  /\ called = "none"
  /\ result = Null
  /\ now = 0
  /\ sends = << >>
  /\ server = ListeningServer

CallConfidenceScore ==
  \E fileInfo \in FileInfos :
    Apply("calculateConfidenceScore",
          [fileInfo |-> fileInfo,
           score |-> calculateConfidenceScore(numbers, alphabets, fileInfo)])

NextConfidence == CallConfidenceScore

SpecConfidence == InitConfidence /\ [][NextConfidence]_vars

(***************************************************************************)
(* detectPatterns and detectClusters applied to classified data            *)
(* (SpecPatterns): up to MaxLen numbers with up to MaxData letters, or up  *)
(* to MaxLen letters with up to MaxData numbers, and longer examples       *)
(***************************************************************************)

PatternNumbers ==
  SeqsUpTo({Num(1), Num(2), Num(12), Fin(3)}, MaxLen)
    \cup {<<Num(1), Num(2), Num(3), Num(12)>>,
          <<Num(1), Num(2), Num(3), Num(7)>>,
          <<Num(1), Num(2), Num(1), Num(2)>>}

PatternAlphabets ==
  SeqsUpTo({"a", "b", "c", "B"}, MaxLen) \cup {<<"a", "b", "a", "b">>}

InitPatterns ==
  /\ data = << >>
  /\ pc = "math"
  /\ \/ /\ numbers \in PatternNumbers
        /\ alphabets \in SeqsUpTo({"a", "b"}, MaxData)
     \/ /\ numbers \in SeqsUpTo({Num(1), Num(2)}, MaxData)
        /\ alphabets \in PatternAlphabets
  /\ highest = << >>
  /\ mathResults = NoMathResults
  /\ geminiKey = FALSE
  /\ labelOutcome = NoOutcome
  /\ aiAnalysis = NoAnalysis
  /\ response = NoResponse
  /\ called = "none"
  /\ result = Null
  /\ now = 0
  /\ sends = << >>
  /\ server = ListeningServer

CallDetectPatterns ==
  Apply("detectPatterns", detectPatterns(numbers, alphabets))

CallDetectClusters == Apply("detectClusters", detectClusters(numbers))

NextPatterns == CallDetectPatterns \/ CallDetectClusters

SpecPatterns == InitPatterns /\ [][NextPatterns]_vars

(***************************************************************************)
(* server.js: the process from listening to exit (SpecServer, and          *)
(* SpecSignals where only signals arrive)                                  *)
(***************************************************************************)

ForceDelay == 10
MaxTime == 12
MaxSignals == 2
MaxConnections == 2

\* gracefulShutdown with the callback put before those already waiting
gracefulShutdownPrepend(srv, time) ==
  [srv EXCEPT
     !.callbacks = <<IF srv.state = "listening" THEN "ok" ELSE "err">> \o @,
     !.state = "closing",
     !.timers = @ \cup {time + ForceDelay},
     !.closeCalls = @ + 1,
     !.shutdownAt = IF @ = -1 THEN time ELSE @]

\* gracefulShutdown: server.close(callback) stops the listener and keeps
\* the callback for the 'close' event, with an error when the server was
\* not open any more; then the force timeout is set
gracefulShutdown(srv, time) ==
  [srv EXCEPT
     !.callbacks = Append(@, IF srv.state = "listening" THEN "ok" ELSE "err"),
     !.state = "closing",
     !.timers = @ \cup {time + ForceDelay},
     !.closeCalls = @ + 1,
     !.shutdownAt = IF @ = -1 THEN time ELSE @]

\* process.exit(code)
Exit(srv, code, by) ==
  [srv EXCEPT !.state = "exited", !.exitCode = code, !.exitedBy = by]

InitServer ==
  /\ data = << >>
  /\ pc = "server"
  /\ numbers = << >>
  /\ alphabets = << >>
  /\ highest = << >>
  /\ mathResults = NoMathResults
  /\ geminiKey = FALSE
  /\ labelOutcome = NoOutcome
  /\ aiAnalysis = NoAnalysis
  /\ response = NoResponse
  /\ called = "none"
  /\ result = Null
  /\ now = 0
  /\ sends = << >>
  /\ server \in {StartedServer(production, connections) :
                   production \in BOOLEAN, connections \in 0..MaxConnections}

ServerStep(srv) ==
  /\ pc = "server"
  /\ server.state # "exited"
  /\ server' = srv
  /\ UNCHANGED <<data, pc, numbers, alphabets, highest, mathResults,
                 geminiKey, labelOutcome, aiAnalysis, response, called,
                 result, sends>>

\* SIGTERM or SIGINT
Signal ==
  /\ server.signals < MaxSignals
  /\ now + ForceDelay <= MaxTime
  /\ ServerStep(gracefulShutdown([server EXCEPT !.signals = @ + 1], now))
  /\ now' = now

\* A client ends its connection
ConnectionEnds ==
  /\ server.connections > 0
  /\ ServerStep([server EXCEPT !.connections = @ - 1])
  /\ now' = now

\* The listener is stopped and no connection is left: 'close' is emitted
\* and its first listener runs, which exits
EmitClose ==
  /\ server.state = "closing"
  /\ server.connections = 0
  /\ ServerStep(Exit(server,
                     IF server.callbacks[1] = "ok" THEN 0 ELSE 1,
                     "closeCallback"))
  /\ now' = now

\* A force timeout is due
ForceTimeout ==
  /\ now \in server.timers
  /\ ServerStep(Exit(server, 1, "forceTimeout"))
  /\ now' = now

\* A second passes: no timer is overdue and no 'close' event is waiting
TimePasses ==
  /\ now < MaxTime
  /\ \A t \in server.timers : now < t
  /\ ~(server.state = "closing" /\ server.connections = 0)
  /\ ServerStep(server)
  /\ now' = now + 1

\* 'uncaughtException': the listener of app.js, added first, exits
UncaughtException ==
  /\ ServerStep(Exit(server, 1, "app.js"))
  /\ now' = now

\* 'unhandledRejection': the listener of app.js exits unless NODE_ENV is
\* "production"; then the listener of server.js shuts down
UnhandledRejection ==
  /\ server.closeCalls < MaxSignals
  /\ now + ForceDelay <= MaxTime
  /\ ServerStep(IF server.production
                THEN gracefulShutdown(server, now)
                ELSE Exit(server, 1, "app.js"))
  /\ now' = now

NextSignals ==
  \/ Signal
  \/ ConnectionEnds
  \/ EmitClose
  \/ ForceTimeout
  \/ TimePasses

SpecSignals == InitServer /\ [][NextSignals]_vars

\* Timers fire when due, pending events are delivered and time goes on
FairSignals ==
  /\ SpecSignals
  /\ WF_vars(EmitClose)
  /\ WF_vars(ForceTimeout)
  /\ WF_vars(TimePasses)

NextServer ==
  \/ Signal
  \/ ConnectionEnds
  \/ EmitClose
  \/ ForceTimeout
  \/ TimePasses
  \/ UncaughtException
  \/ UnhandledRejection

SpecServer == InitServer /\ [][NextServer]_vars

(***************************************************************************)
(* Properties of the service functions (SpecMath)                          *)
(***************************************************************************)

Example100 == <<Num(1), Num(2), Num(3), Num(4), Num(100)>>

HasNonZero(s) == \E i \in 1..Len(s) : ~IsZero(s[i])
AllZero(s) == \A i \in 1..Len(s) : IsZero(s[i])
AllWhole(s) == \A i \in 1..Len(s) : IsWhole(s[i])

\* x is an integer multiple of d
DividesNum(d, x) ==
  /\ IsFin(d)
  /\ IsFin(x)
  /\ IF d.v = 0 THEN x.v = 0 ELSE AbsInt(x.v) % AbsInt(d.v) = 0

\* C1 as stated: detectAnomalies on [1,2,3,4,100] computes the mean 22 and
\* the population variance, and reports 100 in the anomalies list.
C1_Reports100 ==
  (called = "detectAnomalies" /\ numbers = Example100) =>
    /\ result.meanNum = 22 * result.meanDen
    /\ result.varNum * 5 = 7610 * result.varDen
    /\ \E i \in 1..Len(result.anomalies) : result.anomalies[i] = Num(100)

\* C1 amended: detectAnomalies on [1,2,3,4,100] computes the mean 22 and the
\* population variance 7610 / 5 = 1522; the distance of 100 from the mean,
\* 78, does not exceed twice the standard deviation (78^2 = 6084 is not
\* more than 4 * 1522 = 6088), so the anomalies list is empty.
C1_NoAnomalyIn100 ==
  (called = "detectAnomalies" /\ numbers = Example100) =>
    /\ result.method = "statistical_outlier"
    /\ result.meanNum = 22 * result.meanDen
    /\ result.varNum * 5 = 7610 * result.varDen
    /\ result.anomalies = << >>

C1_Witness ==
  /\ called = "detectAnomalies"
  /\ numbers = Example100
  /\ result.anomalies = << >>
  /\ result.meanNum = 220

C3_LcmMultipleOfElements ==
  (called = "calculateLCM" /\ AllFinite(numbers) /\ HasNonZero(numbers)) =>
    \A i \in 1..Len(numbers) :
      ~IsZero(numbers[i]) => DividesNum(numbers[i], result)

\* C4 as stated: for every non-empty NumberSet of zeros, of any length,
\* calculateLCM returns 0 and calculateHCF returns null.
C4_AllZeroAnyLength ==
  (Len(numbers) >= 1 /\ AllZero(numbers)) =>
    /\ called = "calculateLCM" => result = Fin(0)
    /\ called = "calculateHCF" => result = Null

\* C4 amended: for every NumberSet of two or more zeros calculateLCM returns
\* 0 and calculateHCF returns null; for the one-element set [0] both return
\* 0, the absolute value of the element.
C4_AllZero ==
  (Len(numbers) >= 1 /\ AllZero(numbers)) =>
    /\ called = "calculateLCM" => result = Fin(0)
    /\ (called = "calculateHCF" /\ Len(numbers) >= 2) => result = Null
    /\ (called = "calculateHCF" /\ Len(numbers) = 1) => result = Fin(0)

C4_Witness ==
  /\ called = "calculateHCF"
  /\ numbers = <<Num(0), Num(0)>>
  /\ result = Null


(***************************************************************************)
(* Properties of POST /bfhl with the labeling collaborator (Spec)          *)
(***************************************************************************)

AnalyzeDataReturned == pc \in {"aiDone", "responded"}

\* C5 as stated: whenever GEMINI_API_KEY is not set or a label call fails,
\* the AI fields of the report are "unavailable", "neutral", "optimize" and
\* the confidence 0.
C5_FallbackLiterals ==
  (/\ AnalyzeDataReturned
   /\ ~geminiKey \/ \E c \in Calls : labelOutcome[c] = "throws") =>
    aiAnalysis.ai_powered_insights =
      [gemini_analysis |-> "unavailable", data_sentiment |-> "neutral",
       ai_recommendation |-> "optimize", ai_confidence |-> 0]

\* C6: whatever the three label calls do among returning text, returning
\* nothing usable, being unconfigured and failing, analyzeData returns (it
\* is never left waiting), its report has no error field and carries the
\* non-AI analysis, and POST /bfhl answers 200 with is_success true and
\* with numbers, alphabets, highest_lowercase_alphabet and mathematical
\* results that are determined by the request data alone.
C6_CoreIndependentOfLabels ==
  /\ (pc = "aiPending" /\ \A c \in Calls : labelOutcome[c] # "never") =>
       ENABLED FinishAnalyzeData
  /\ AnalyzeDataReturned =>
       /\ aiAnalysis.error = ""
       /\ aiAnalysis.traditional
       /\ aiAnalysis.anomaly_detection = detectAnomalies(ClassifiedNumbers(data))
  /\ pc = "responded" =>
       /\ response.status = 200
       /\ response.is_success
       /\ response.numbers =
            [i \in 1..Len(ClassifiedNumbers(data)) |->
               NumberToString(ClassifiedNumbers(data)[i])]
       /\ response.alphabets = ClassifiedAlphabets(data)
       /\ response.highest_lowercase_alphabet = HighestLowercaseAlphabet(data)
       /\ response.mathematical_operations = MathResults(ClassifiedNumbers(data))
       /\ response.ai_insights.error = ""

C6_Witness ==
  /\ pc = "responded"
  /\ geminiKey
  /\ labelOutcome["analysis"] = "word"
  /\ labelOutcome["sentiment"] = "throws"
  /\ labelOutcome["recommendation"] = "throws"
  /\ response.status = 200
  /\ response.numbers = <<<<"4">>, <<"6">>>>
  /\ response.ai_insights.ai_powered_insights.data_sentiment = "unknown"

\* C7 as stated: although a label call never settles, analyzeData
\* eventually returns and POST /bfhl eventually answers.
C7_EventuallyAnswers == (pc = "aiPending") ~> (pc = "responded")

(***************************************************************************)
(* Properties of validation and classification (SpecClassify)              *)
(***************************************************************************)

Classified == pc \in {"classified", "mathDone", "hung"}

\* C8 as stated: for every request that validateBfhlRequest accepts, the
\* Fibonacci, primes, LCM and HCF computations on the classified numbers
\* all return.
C8_MathReturns ==
  /\ pc # "hung"
  /\ pc = "mathDone" => ~MathHangs(mathResults)

\* The token is a number that is finite, or a string that, white space
\* around it apart, is wholly a decimal literal with a finite value
IsFiniteDecimal(item) ==
  IF item.t = "number" THEN IsFin(item.n)
  ELSE /\ item.t = "string"
       /\ LET t == Trim(item.s)
          IN  /\ t # << >>
              /\ ScanDecimal(t).len = Len(t)
              /\ IsFin(ScanDecimal(t).value)

\* C9 as stated: the classifier puts a token in numbers only if it parses
\* fully as a finite decimal number, so every element of numbers is finite.
C9_OnlyFiniteDecimals ==
  Classified =>
    /\ \A i \in 1..Len(data) :
         IsNumericItem(data[i]) => IsFiniteDecimal(data[i])
    /\ \A i \in 1..Len(numbers) : IsFin(numbers[i])

\* C10 as stated: for every request that passes validateBfhlRequest, numbers
\* has at most 1000 elements and each of them lies within
\* [-999999999, 999999999] (stated here for the finite elements).
C10_NumbersInRange ==
  Classified =>
    /\ Len(numbers) <= MaxArrayLength
    /\ \A i \in 1..Len(numbers) :
         IsFin(numbers[i]) => AbsInt(numbers[i].v) <= 2 * MaxNumber

\* The positions of the tokens that are numeric, and of those that are a
\* single ASCII letter
NumericPositions(d) == {i \in 1..Len(d) : IsNumericItem(d[i])}
LetterPositions(d) == {i \in 1..Len(d) : IsSingleLetter(ToStringItem(d[i]))}
\* How many positions of P come no later than i
RankIn(P, i) == Cardinality({j \in P : j <= i})

\* C11: no token is both numeric and a letter; numbers holds the values of
\* the numeric tokens and alphabets the letter tokens, each in the order of
\* the input, so that putting them back at the positions they came from
\* gives the input without the dropped tokens (a numeric token by its
\* value); ["1","2","a","b","3"] gives [1,2,3] and ["a","b"].
C11_ClassifyRoundTrip ==
  Classified =>
    /\ NumericPositions(data) \cap LetterPositions(data) = {}
    /\ Len(numbers) = Cardinality(NumericPositions(data))
    /\ Len(alphabets) = Cardinality(LetterPositions(data))
    /\ \A i \in NumericPositions(data) :
         numbers[RankIn(NumericPositions(data), i)] = ToNumberItem(data[i])
    /\ \A i \in LetterPositions(data) :
         <<alphabets[RankIn(LetterPositions(data), i)]>> = data[i].s
    /\ data = ExampleTokens =>
         /\ numbers = <<Num(1), Num(2), Num(3)>>
         /\ alphabets = <<"a", "b">>

C11_Witness ==
  /\ pc = "classified"
  /\ data = ExampleTokens
  /\ numbers = <<Num(1), Num(2), Num(3)>>
  /\ alphabets = <<"a", "b">>

LowercaseOf(s) == {s[i] : i \in {j \in 1..Len(s) : IsLower(s[j])}}

\* C12: highest_lowercase_alphabet is empty exactly when alphabets has no
\* lowercase letter, and otherwise holds the one lowercase letter of
\* alphabets that no other lowercase letter of alphabets exceeds; an
\* uppercase letter is never chosen.
C12_HighestLowercase ==
  Classified =>
    /\ (highest = << >>) <=> (LowercaseOf(alphabets) = {})
    /\ highest # << >> =>
         /\ Len(highest) = 1
         /\ highest[1] \in LowercaseOf(alphabets)
         /\ \A c \in LowercaseOf(alphabets) : CharCode(c) <= CharCode(highest[1])

C12_Witness ==
  /\ pc = "classified"
  /\ alphabets = <<"z", "B">>
  /\ highest = <<"z">>

\* C15 as stated: for a one-element NumberSet the lcm and hcf that POST
\* /bfhl delivers are that single value.
C15_SingleValueDelivered ==
  (pc = "mathDone" /\ Len(numbers) = 1) =>
    /\ mathResults.lcm = numbers[1]
    /\ mathResults.hcf = numbers[1]

(***************************************************************************)
(* Properties of isPrime (SpecPrime) and of the Fibonacci sequence and the *)
(* mode (SpecMath)                                                         *)
(***************************************************************************)

\* The oracle: n >= 2 has no divisor d with 1 < d < n
TrialDivisionPrime(n) == n >= 2 /\ \A d \in 2..(n - 1) : n % d # 0

\* C13: for every integer n of 0..10000, isPrime(n) is true exactly when
\* n >= 2 and no d with 1 < d < n divides n.
C13_IsPrimeAgreesWithTrialDivision ==
  called = "isPrime" =>
    /\ result.k = "bool"
    /\ (result.v = 1) <=> TrialDivisionPrime(numbers[1].v \div 2)

C13_Witness ==
  /\ called = "isPrime"
  /\ numbers = <<Num(9973)>>
  /\ result.v = 1

\* C14: for a finite max, getFibonacciSequence(max) is empty when max < 0,
\* [0] when max = 0, and otherwise starts 0, 1, has every further term equal
\* to the sum of the two before it and at most max, and ends where the next
\* sum exceeds max; getFibonacciSequence(10) = [0,1,1,2,3,5,8].
C14_FibonacciUpTo ==
  (called = "getFibonacciSequence" /\ IsFin(MathMax(numbers))) =>
    LET max == MathMax(numbers)
        seq == result.v
    IN  /\ result.k = "seq"
        /\ max.v < 0 => seq = << >>
        /\ max.v = 0 => seq = <<Num(0)>>
        /\ max.v > 0 =>
             /\ Len(seq) >= 2
             /\ seq[1] = Num(0)
             /\ seq[2] = Num(1)
             /\ \A i \in 3..Len(seq) :
                  /\ seq[i].v = seq[i - 1].v + seq[i - 2].v
                  /\ seq[i].v <= max.v
             /\ seq[Len(seq)].v + seq[Len(seq) - 1].v > max.v
        /\ max = Num(10) =>
             seq = <<Num(0), Num(1), Num(1), Num(2), Num(3), Num(5), Num(8)>>

C14_Witness ==
  /\ called = "getFibonacciSequence"
  /\ numbers = <<Num(10)>>
  /\ Len(result.v) = 7
  /\ result.v[7] = Num(8)

ValuesOf(s) == {s[i] : i \in 1..Len(s)}
Frequency(s, x) == Cardinality({i \in 1..Len(s) : s[i] = x})
MostFrequent(s) ==
  {x \in ValuesOf(s) : \A y \in ValuesOf(s) : Frequency(s, y) <= Frequency(s, x)}

\* C16: for every non-empty NumberSet, calculateMode returns null when every
\* value occurs once, and otherwise the values of maximum frequency, each
\* once; mode([1,2,3]) = null and mode([1,1,2]) = [1].
C16_ModeIsMostFrequent ==
  (called = "calculateMode" /\ Len(numbers) >= 1) =>
    /\ IF \A x \in ValuesOf(numbers) : Frequency(numbers, x) = 1
       THEN result = Null
       ELSE /\ result.k = "seq"
            /\ ValuesOf(result.v) = MostFrequent(numbers)
            /\ Len(result.v) = Cardinality(MostFrequent(numbers))
    /\ numbers = <<Num(1), Num(2), Num(3)>> => result = Null
    /\ numbers = <<Num(1), Num(1), Num(2)>> => result.v = <<Num(1)>>

C16_Witness ==
  /\ called = "calculateMode"
  /\ numbers = <<Num(2), Num(1), Num(1)>>
  /\ result.v = <<Num(1)>>

(***************************************************************************)
(* Properties of the statistics (SpecStats)                                *)
(***************************************************************************)

IsConstantSet(s) == Len(s) >= 1 /\ \A i \in 1..Len(s) : s[i] = s[1]

\* C17: for a NumberSet of one element, or of equal elements, the standard
\* deviation is 0 and skewness and kurtosis are both returned as 0
C17_ConstantSetAllZero ==
  (called \in {"calculateStandardDeviation", "calculateSkewness",
               "calculateKurtosis"} /\ IsConstantSet(numbers))
    => result = DblZero

(***************************************************************************)
(* Properties of repeated calls (SpecRepeat)                               *)
(***************************************************************************)

\* C18: two calls of analyzeData on the same input, with the same answers
\* of the label calls, return the same report
C18_RepeatedReportIdentical ==
  (called = "analyzeData" /\ Len(result) >= 2) => result[2] = result[1]

(***************************************************************************)
(* Properties of the joined computations (SpecConcurrent)                  *)
(***************************************************************************)

\* C19: the fibonacci, primes, lcm and hcf results joined by
\* getMathematicalInsights are those processBfhl computes one after
\* another, in whatever order the four tasks settled
C19_JoinedEqualsSequential ==
  (called = "getMathematicalInsights" /\ mathResults.present
     /\ ~MathHangs(mathResults))
    => \A t \in Tasks : result[t] = mathResults[t]

\* The same for sets of two elements or more
C19_JoinedEqualsSequentialFromTwo ==
  (called = "getMathematicalInsights" /\ mathResults.present
     /\ ~MathHangs(mathResults) /\ Len(numbers) > 1)
    => \A t \in Tasks : result[t] = mathResults[t]

(***************************************************************************)
(* Properties of the confidence score (SpecConfidence)                     *)
(***************************************************************************)

AllDistinct(s) == \A i, j \in 1..Len(s) : s[i] = s[j] => i = j

\* 0.5 and the increments of the documentation, in tenths, capped at 1.0
ExpectedConfidence(nums, alphas, fileInfo) ==
  LET total ==
        5 + (IF Len(nums) + Len(alphas) > 10 THEN 2 ELSE 0)
          + (IF nums # << >> /\ alphas # << >> THEN 1 ELSE 0)
          + (IF AllDistinct(nums) /\ AllDistinct(alphas) THEN 1 ELSE 0)
          + (IF fileInfo = "valid" THEN 1 ELSE 0)
  IN  IF total < 10 THEN total ELSE 10

\* C20: the confidence score is min(1.0, 0.5 + 0.2 for more than 10
\* elements + 0.1 for two non-empty buckets + 0.1 for all elements distinct
\* + 0.1 for a valid file); it lies between 0.5 and 1.0 and is the same
\* whatever the label calls answer
C20_ConfidenceScoreFormula ==
  called = "calculateConfidenceScore"
    => /\ result.score = ExpectedConfidence(numbers, alphabets, result.fileInfo)
       /\ result.score >= 5
       /\ result.score <= 10

\* Eleven distinct elements in two buckets with a valid file: every
\* increment applies and the score is 1.0
C20_Witness ==
  /\ called = "calculateConfidenceScore"
  /\ numbers = [i \in 1..6 |-> Num(i)]
  /\ alphabets = <<"A", "B", "C", "D", "E">>
  /\ result.fileInfo = "valid"
  /\ result.score = 10

(***************************************************************************)
(* Properties of requests with an empty bucket (Spec)                      *)
(***************************************************************************)

\* C21: a validated request that leaves numbers empty, alphabets empty or
\* both is answered 200 with a report that has no error field, its
\* complexity is assessed, and mathResults is empty exactly when numbers is
C21_EmptyBucketNoError ==
  (pc = "responded" /\ (numbers = << >> \/ alphabets = << >>))
    => /\ response.status = 200
       /\ response.is_success
       /\ aiAnalysis.error = ""
       /\ aiAnalysis.traditional
       /\ assessDataComplexity(numbers, alphabets).level = "low"
       /\ ~response.mathematical_operations.present <=> numbers = << >>

\* Both buckets are empty: the only item is no number and no letter
C21_Witness ==
  /\ pc = "responded"
  /\ data = <<StringToken(<<"$">>)>>
  /\ numbers = << >>
  /\ alphabets = << >>
  /\ response.status = 200
  /\ ~response.mathematical_operations.present

(***************************************************************************)
(* Properties of detectAnomalies (SpecMath)                                *)
(***************************************************************************)

\* The sum over the numbers of (n x - S)^2, for x and S in halves: n^2 times
\* the sum of the squared distances to the mean
RECURSIVE ScaledSquaredDistances(_, _, _, _)
ScaledSquaredDistances(nums, i, n, S) ==
  IF i > Len(nums) THEN 0
  ELSE (n * nums[i].v - S) * (n * nums[i].v - S)
         + ScaledSquaredDistances(nums, i + 1, n, S)

\* |x - mean| > 2 * sqrt(sum of squared distances / n), in integers
IsOutlier(x, nums) ==
  LET n == Len(nums)
      S == SumHalves(nums, 1)
  IN  n * (n * x.v - S) * (n * x.v - S)
        > 4 * ScaledSquaredDistances(nums, 1, n, S)

IsPrimeNumber(x) == IsWhole(x) /\ TrialDivisionPrime(x.v \div 2)

Occurrences(s, x) == Cardinality({i \in 1..Len(s) : s[i] = x})

\* C27: getPrimeNumbers returns, in ascending order, exactly the elements
\* of numbers that are prime numbers, each as many times as it occurs
C27_PrimesAreThePrimeElements ==
  (called = "getPrimeNumbers" /\ AllFinite(numbers))
    => /\ result.k = "seq"
       /\ \A i \in 1..(Len(result.v) - 1) :
            ~JsGt(result.v[i], result.v[i + 1])
       /\ \A x \in MathValues \cup {Num(10), Num(100)} :
            Occurrences(result.v, x)
              = IF IsPrimeNumber(x) THEN Occurrences(numbers, x) ELSE 0

(***************************************************************************)
(* Properties of detectPatterns and detectClusters (SpecPatterns)          *)
(***************************************************************************)

HasPattern(patterns, type) ==
  \E i \in 1..Len(patterns) : patterns[i].type = type

\* C23: numerical_patterns holds ascending_trend exactly when the strictly
\* ascending adjacent pairs are more than 1.5 times the strictly descending
\* ones, descending_trend exactly in the converse case, never both, each
\* with confidence its count over the number of adjacent pairs
C23_TrendExactlyWhenLeading ==
  called = "detectPatterns"
    => LET asc == AscendingPairs(numbers)
           desc == DescendingPairs(numbers)
           patterns == result.numerical_patterns
       IN  /\ HasPattern(patterns, "ascending_trend") <=> 2 * asc > 3 * desc
           /\ HasPattern(patterns, "descending_trend") <=> 2 * desc > 3 * asc
           /\ ~(HasPattern(patterns, "ascending_trend")
                  /\ HasPattern(patterns, "descending_trend"))
           /\ \A i \in 1..Len(patterns) :
                /\ patterns[i].type = "ascending_trend"
                     => patterns[i].num * (Len(numbers) - 1)
                          = asc * patterns[i].den
                /\ patterns[i].type = "descending_trend"
                     => patterns[i].num * (Len(numbers) - 1)
                          = desc * patterns[i].den

\* The same for three numbers or more
C23_TrendFromThree ==
  (called = "detectPatterns" /\ Len(numbers) >= 3)
    => C23_TrendExactlyWhenLeading

\* The code points of the letters are all different and fill the range
\* from the least to the greatest: sorted, each is one more than the one
\* before
IsContiguous(alphas) ==
  LET codes == {CharCode(alphas[i]) : i \in 1..Len(alphas)}
  IN  /\ Cardinality(codes) = Len(alphas)
      /\ \A c \in codes : \A d \in codes : d - c < Len(alphas)

\* C24: for letters in any number, is_alphabetical is true exactly when the
\* sorted code points rise by 1 from each to the next
C24_AlphabeticalIffContiguous ==
  called = "detectPatterns"
    => (result.is_alphabetical <=> IsContiguous(alphabets))

\* The same for two letters or more
C24_AlphabeticalFromTwo ==
  (called = "detectPatterns" /\ Len(alphabets) >= 2)
    => (result.is_alphabetical <=> IsContiguous(alphabets))

\* The lengths L of a prefix of str that, repeated, gives str
Periods(str) ==
  {L \in 1..(Len(str) \div 2) :
     /\ Len(str) % L = 0
     /\ \A i \in 1..Len(str) : str[i] = str[((i - 1) % L) + 1]}

\* C25: on the strings of the numbers followed by the letters,
\* has_repetition is the shortest prefix of length at most half the string
\* whose repetition is the string, and false exactly when there is none
C25_ShortestRepeatingPrefix ==
  called = "detectPatterns"
    => LET str == JoinData(numbers, alphabets)
           found == result.has_repetition
       IN  /\ found.found <=> Periods(str) # {}
           /\ found.found
                => /\ found.length \in Periods(str)
                   /\ \A L \in Periods(str) : found.length <= L
                   /\ found.pattern = SubSeq(str, 1, found.length)

\* 12 and 12 give "1212", which is "12" twice and not one character repeated
C25_Witness ==
  /\ called = "detectPatterns"
  /\ numbers = <<Num(12), Num(12)>>
  /\ alphabets = << >>
  /\ result.has_repetition =
       [found |-> TRUE, pattern |-> <<"1", "2">>, length |-> 2]

\* C26: for 3 numbers or more detectClusters counts the gaps between
\* neighbours of the sorted numbers that exceed twice the average gap, and
\* reports one cluster more than that; for fewer the result is empty
C26_ClustersFromLargeGaps ==
  called = "detectClusters"
    => IF Len(numbers) < 3 THEN result.empty
       ELSE LET sorted == SortAsc(numbers)
                n == Len(sorted)
                \* the gaps add up to the distance from least to greatest
                spread == sorted[n].v - sorted[1].v
                large == {i \in 1..(n - 1) :
                            (sorted[i + 1].v - sorted[i].v) * (n - 1)
                              > 2 * spread}
            IN  /\ ~result.empty
                /\ \A i \in 1..(n - 1) : ~JsGt(sorted[i], sorted[i + 1])
                /\ result.large_gaps = Cardinality(large)
                /\ result.potential_clusters = result.large_gaps + 1
                /\ result.potential_clusters >= 1
                /\ result.gapSum * (n - 1) = spread * result.gapCount

\* 1, 2, 3, 12: the gaps are 1, 1 and 9, their average 11/3, and 9 is the
\* only one above 22/3
C26_Witness ==
  /\ called = "detectClusters"
  /\ numbers = <<Num(1), Num(2), Num(3), Num(12)>>
  /\ result.large_gaps = 1
  /\ result.potential_clusters = 2

(***************************************************************************)
(* Properties of the request timeout (SpecTimeout)                         *)
(***************************************************************************)

\* C28: at most one response is written; after the timeout's 408 the
\* handler makes no res.json call, and after the handler's response the
\* timeout callback makes none
C28_OneSendAttempt ==
  /\ Cardinality({i \in 1..Len(sends) : sends[i].written}) <= 1
  /\ \A i, j \in 1..Len(sends) :
       i < j => /\ ~(sends[i].by = "timeout" /\ sends[j].by = "processBfhl")
                /\ ~(sends[i].by = "processBfhl" /\ sends[j].by = "timeout")

\* At most one res.json call writes the response
C28_OneResponseWritten ==
  Cardinality({i \in 1..Len(sends) : sends[i].written}) <= 1

(***************************************************************************)
(* Properties of the server process (SpecServer, FairSignals)              *)
(***************************************************************************)

\* C29: the process exits only from the callback of server.close or from
\* the force timeout, after server.close was called
C29_ExitsOnlyAfterShutdown ==
  server.state = "exited"
    => /\ server.closeCalls >= 1
       /\ server.exitedBy \in {"closeCallback", "forceTimeout"}

\* C30: once a signal has arrived the process exits, no later than
\* ForceDelay after the first one; it exits with code 0 only from the
\* callback of a server.close that completed without error, and a close
\* that completes gives code 0 however many signals arrived
C30_SignalsLeadToExit ==
  /\ [](server.state = "exited" /\ server.exitCode = 0
          => server.exitedBy = "closeCallback" /\ server.callbacks[1] = "ok")
  /\ [](server.state = "exited" /\ server.exitedBy = "closeCallback"
          => server.exitCode = 0)
  /\ [](server.state = "closing" => now <= server.shutdownAt + ForceDelay)
  /\ (server.signals > 0) ~> (server.state = "exited")

\* Two signals, then the last connection ends and the process exits with 0
C30_Witness ==
  /\ server.state = "exited"
  /\ server.signals = 2
  /\ server.callbacks = <<"ok", "err">>
  /\ server.exitedBy = "closeCallback"
  /\ server.exitCode = 0

====
